---- MODULE Spec2Model ----
(***************************************************************************)
(* A model of the Lua binding in src/avro/legacy/avro.c: the AvroValue     *)
(* methods (get, set, size, append, add, iterate, set_from_ast, encode),   *)
(* the union branch selection and the resolved-writer decode.  The binding *)
(* drives the Avro C generic-value library; each library call the binding  *)
(* makes is an operator named after it (avro_value_append, ...).           *)
(***************************************************************************)
EXTENDS Integers, Sequences, FiniteSets, TLC

\* ------------------------------------------------------------- bounds
MaxLen == 2        \* session: an array or map grows to at most this size
MaxIters == 2      \* session: iterators created in one run
MaxStatic == 3     \* codec: the scaled size of the static encode buffer

\* ------------------------------------------------------------ schemas
SNull == [type |-> "null"]
SBoolean == [type |-> "boolean"]
SInt == [type |-> "int"]
SLong == [type |-> "long"]
SFloat == [type |-> "float"]
SDouble == [type |-> "double"]
SString == [type |-> "string"]
SBytes == [type |-> "bytes"]
SEnum == [type |-> "enum", symbols |-> <<"A", "B">>]
SArray(items) == [type |-> "array", items |-> items]
SMap(values) == [type |-> "map", values |-> values]
SRecord(fields) == [type |-> "record", fields |-> fields]
SUnion(branches) == [type |-> "union", branches |-> branches]
Field(name, schema) == [name |-> name, schema |-> schema]

\* avro_schema_type_name: the name a union branch is selected by.
avro_schema_type_name(s) == s.type

\* ------------------------------------------------------- Lua values
LNone == [t |-> "none"]                 \* argument not passed
LNil == [t |-> "nil"]
LBool(b) == [t |-> "boolean", b |-> b]
LNum(n) == [t |-> "number", n |-> n]
\* The whole number q * 2^32 + r, r in the int32_t range: the numbers
\* beyond that range are written this way.
LWide(q, r) == [t |-> "number", n |-> r, q |-> q]
LStr(s) == [t |-> "string", s |-> s]
\* A table is the sequence of its (key, value) pairs in lua_next order.
LTab(q) == [t |-> "table", q |-> q]

\* Strings that Lua converts to a number, with the number.
NumericStrings == {"0", "1", "2"}
StrToNum(s) == CASE s = "0" -> 0 [] s = "1" -> 1 [] s = "2" -> 2
\* lua_tostring of a number (the decimal numeral), for the numbers used.
NumToStr(n) ==
  CASE n = 0 -> "0" [] n = 1 -> "1" [] n = 2 -> "2" [] n = 3 -> "3"
    [] n = 4 -> "4" [] n = -1 -> "-1" [] OTHER -> "n"

lua_isnumber(x) ==
  x.t = "number" \/ (x.t = "string" /\ x.s \in NumericStrings)
lua_isstring(x) == x.t \in {"string", "number"}
lua_isnil(x) == x.t = "nil"
lua_tointeger(x) == IF x.t = "number" THEN x.n ELSE StrToNum(x.s)
lua_tostring(x) == IF x.t = "string" THEN x.s ELSE NumToStr(x.n)
lua_toboolean(x) ==
  IF x.t \in {"nil", "none"} THEN FALSE
  ELSE IF x.t = "boolean" THEN x.b ELSE TRUE

\* The bytes of the strings that are stored in values (luaL_checklstring).
StrBytes(s) ==
  CASE s = "" -> <<>>
    [] s = "a" -> <<97>>
    [] s = "b" -> <<98>>
    [] s = "ab" -> <<97, 98>>
    [] s = "0" -> <<48>>
    [] s = "1" -> <<49>>
    [] s = "2" -> <<50>>
    [] OTHER -> <<122>>

\* ------------------------------------------------------ Avro values
VNone == [k |-> "none"]                  \* storage of no branch
VNull == [k |-> "null"]
VBool(b) == [k |-> "boolean", t |-> b]
VInt(n) == [k |-> "int", n |-> n]
VLong(n) == [k |-> "long", n |-> n]
\* The floats and doubles of this model are the whole numbers below 2^31.
VFloat(n) == [k |-> "float", n |-> n]
VDouble(n) == [k |-> "double", n |-> n]
VStr(s) == [k |-> "string", s |-> s]     \* s: the bytes, NUL included
VBytes(s) == [k |-> "bytes", s |-> s]
VEnum(i) == [k |-> "enum", i |-> i]
VArr(e) == [k |-> "array", e |-> e]
VMap(m) == [k |-> "map", m |-> m]        \* m: <<[key, val]>> as stored
VRec(f) == [k |-> "record", f |-> f]
VUni(d, b) == [k |-> "union", d |-> d, b |-> b]
Entry(key, val) == [key |-> key, val |-> val]

\* avro_generic_value_new / avro_value_reset: the empty value of a schema.
RECURSIVE New(_)
New(s) ==
  CASE s.type = "null" -> VNull
    [] s.type = "boolean" -> VBool(FALSE)
    [] s.type = "int" -> VInt(0)
    [] s.type = "long" -> VLong(0)
    [] s.type = "float" -> VFloat(0)
    [] s.type = "double" -> VDouble(0)
    [] s.type = "string" -> VStr(<<0>>)
    [] s.type = "bytes" -> VBytes(<<>>)
    [] s.type = "enum" -> VEnum(0)
    [] s.type = "array" -> VArr(<<>>)
    [] s.type = "map" -> VMap(<<>>)
    [] s.type = "record" ->
         VRec([i \in 1..Len(s.fields) |-> New(s.fields[i].schema)])
    [] s.type = "union" -> VUni(-1, VNone)

avro_value_get_type(v) == v.k

\* The children of a value, in storage order (0-based position i is
\* Children(v)[i+1]); a union has its active branch as only child.
Children(v) ==
  CASE v.k = "array" -> v.e
    [] v.k = "map" -> [i \in 1..Len(v.m) |-> v.m[i].val]
    [] v.k = "record" -> v.f
    [] v.k = "union" -> IF v.d >= 0 THEN <<v.b>> ELSE <<>>
    [] OTHER -> <<>>

ChildSchema(s, v, i) ==
  CASE s.type = "array" -> s.items
    [] s.type = "map" -> s.values
    [] s.type = "record" -> s.fields[i + 1].schema
    [] s.type = "union" -> s.branches[v.d + 1]

WithChild(v, i, c) ==
  CASE v.k = "array" -> VArr([v.e EXCEPT ![i + 1] = c])
    [] v.k = "map" -> VMap([v.m EXCEPT ![i + 1] = Entry(v.m[i + 1].key, c)])
    [] v.k = "record" -> VRec([v.f EXCEPT ![i + 1] = c])
    [] v.k = "union" -> VUni(v.d, c)

\* A view (a non-owning wrapper) is the path from the wrapped root value to
\* the child it denotes.
RECURSIVE Sub(_, _)
Sub(v, p) == IF p = <<>> THEN v ELSE Sub(Children(v)[Head(p) + 1], Tail(p))

RECURSIVE SchemaAt(_, _, _)
SchemaAt(s, v, p) ==
  IF p = <<>> THEN s
  ELSE SchemaAt(ChildSchema(s, v, Head(p)), Children(v)[Head(p) + 1], Tail(p))

RECURSIVE Put(_, _, _)
Put(v, p, x) ==
  IF p = <<>> THEN x
  ELSE WithChild(v, Head(p), Put(Children(v)[Head(p) + 1], Tail(p), x))

RECURSIVE Paths(_)
Paths(v) ==
  {<<>>} \cup UNION {{<<i - 1>> \o q : q \in Paths(Children(v)[i])} :
                       i \in 1..Len(Children(v))}

\* ------------------------------------------- the Avro C value library
\* avro_value_get_size of an array or map.
avro_value_get_size(v) == Len(Children(v))

\* avro_value_append: one trailing element in its empty state.
avro_value_append(vs, v) == VArr(Append(v.e, New(vs.items)))

\* The 0-based storage position of a map key, -1 when absent.
MapIndex(v, key) ==
  IF \E i \in 1..Len(v.m) : v.m[i].key = key
  THEN (CHOOSE i \in 1..Len(v.m) : v.m[i].key = key) - 1
  ELSE -1

\* avro_value_add: a new trailing entry, or the existing entry of the key.
avro_value_add(vs, v, key) ==
  IF MapIndex(v, key) >= 0 THEN v
  ELSE VMap(Append(v.m, Entry(key, New(vs.values))))

\* avro_schema_record_field_get_index: 0-based, -1 when unknown.
FieldIndex(vs, name) ==
  IF \E i \in 1..Len(vs.fields) : vs.fields[i].name = name
  THEN (CHOOSE i \in 1..Len(vs.fields) : vs.fields[i].name = name) - 1
  ELSE -1

\* avro_schema_union_branch_by_name: the discriminant, -1 for NULL.
avro_schema_union_branch_by_name(vs, name) ==
  IF \E i \in 1..Len(vs.branches) :
       avro_schema_type_name(vs.branches[i]) = name
  THEN (CHOOSE i \in 1..Len(vs.branches) :
          avro_schema_type_name(vs.branches[i]) = name) - 1
  ELSE -1

\* avro_schema_enum_get_by_name: the symbol's index, -1 when unknown.
avro_schema_enum_get_by_name(vs, name) ==
  IF \E i \in 1..Len(vs.symbols) : vs.symbols[i] = name
  THEN (CHOOSE i \in 1..Len(vs.symbols) : vs.symbols[i] = name) - 1
  ELSE -1

\* avro_schema_enum_get: the symbol at an index (NULL, pushed as nil,
\* outside the list).
avro_schema_enum_get(vs, i) ==
  IF i >= 0 /\ i < Len(vs.symbols) THEN LStr(vs.symbols[i + 1]) ELSE LNil

\* avro_value_set_branch succeeds for the discriminants of the schema.
BranchExists(vs, d) == d >= 0 /\ d < Len(vs.branches)
\* avro_value_set_branch: the union reset to the selected branch.
avro_value_set_branch(vs, d) == VUni(d, New(vs.branches[d + 1]))

\* avro_value_set_enum succeeds for the indexes of the symbol list.
EnumExists(vs, i) == i >= 0 /\ i < Len(vs.symbols)

\* luaL_checkinteger: the lua_Integer (64 bits) of the argument, as
\* q * 2^32 + r with r in the int32_t range.
luaL_checkinteger(a) ==
  [q |-> IF "q" \in DOMAIN a THEN a.q ELSE 0, r |-> lua_tointeger(a)]
\* The conversion of a lua_Integer to the int32_t parameter of
\* avro_value_set_int: the number modulo 2^32, in the int32_t range.
ToInt32(i) == i.r

\* The conversion of a whole number to float: the nearest number with a
\* significand of 24 bits, the even one of two equally near.
RECURSIVE Log2(_)
Log2(a) == IF a < 2 THEN 0 ELSE 1 + Log2(a \div 2)
Abs(n) == IF n < 0 THEN -n ELSE n
ToFloat(n) ==
  LET a == Abs(n)
      q == 2 ^ (Log2(a) - 23)
      lo == a - (a % q)
      up == (2 * (a % q) > q) \/ (2 * (a % q) = q /\ (lo \div q) % 2 = 1)
      f == IF up THEN lo + q ELSE lo
  IN IF a < 2 ^ 24 THEN n ELSE IF n < 0 THEN -f ELSE f

\* The Lua string of stored bytes (lua_pushlstring).
BytesStr(b) ==
  CASE b = <<>> -> ""
    [] b = <<97>> -> "a"
    [] b = <<98>> -> "b"
    [] b = <<97, 98>> -> "ab"
    [] b = <<48>> -> "0"
    [] b = <<49>> -> "1"
    [] b = <<50>> -> "2"
    [] OTHER -> "z"

\* avro_value_equal: structural equality; the entries of two maps are
\* matched by key, whatever their storage order.
RECURSIVE avro_value_equal(_, _)
avro_value_equal(a, b) ==
  IF a.k # b.k THEN FALSE
  ELSE CASE a.k = "array" ->
              /\ Len(a.e) = Len(b.e)
              /\ \A i \in 1..Len(a.e) : avro_value_equal(a.e[i], b.e[i])
         [] a.k = "map" ->
              /\ Len(a.m) = Len(b.m)
              /\ \A i \in 1..Len(a.m) :
                   /\ MapIndex(b, a.m[i].key) >= 0
                   /\ avro_value_equal(a.m[i].val,
                                       b.m[MapIndex(b, a.m[i].key) + 1].val)
         [] a.k = "record" ->
              /\ Len(a.f) = Len(b.f)
              /\ \A i \in 1..Len(a.f) : avro_value_equal(a.f[i], b.f[i])
         [] a.k = "union" ->
              /\ a.d = b.d
              /\ (a.d < 0 \/ avro_value_equal(a.b, b.b))
         [] OTHER -> a = b

\* --------------------------------------------- outcomes of a handler
NoView == <<-1>>
\* out: "ok" (values returned), "nilmsg" (nil plus a message), "raise"
\* (lua_error) or "end" (nothing returned).  v: the root value afterwards.
\* view: the wrapper pushed, val: the other value pushed.
Result(out, v, view, val, msg) ==
  [out |-> out, v |-> v, view |-> view, val |-> val, msg |-> msg]
Ok(v, view, val) == Result("ok", v, view, val, "")
NilMsg(v, msg) == Result("nilmsg", v, NoView, LNil, msg)
Raise(v, msg) == Result("raise", v, NoView, LNone, msg)

\* ------------------------------------------------------- the handlers
l_value_size(s, root, p) ==
  LET v == Sub(root, p) IN
  IF avro_value_get_type(v) \in {"array", "map"}
  THEN Ok(root, NoView, LNum(avro_value_get_size(v)))
  ELSE Raise(root, "Can only get size of array or map")

l_value_discriminant_index(s, root, p) ==
  LET v == Sub(root, p) IN
  IF avro_value_get_type(v) # "union"
  THEN Raise(root, "Can't get discriminant of a non-union value")
  ELSE Ok(root, NoView, LNum(v.d + 1))

l_value_discriminant(s, root, p) ==
  LET v == Sub(root, p)
      vs == SchemaAt(s, root, p)
  IN IF avro_value_get_type(v) # "union"
     THEN Raise(root, "Can't get discriminant of a non-union value")
     ELSE Ok(root, NoView,
             IF BranchExists(vs, v.d)
             THEN LStr(avro_schema_type_name(vs.branches[v.d + 1]))
             ELSE LNil)

\* __eq of the AvroValue metatable.
l_value_eq(a, b) == avro_value_equal(a, b)

l_value_reset(s, root, p) ==
  Ok(Put(root, p, New(SchemaAt(s, root, p))), NoView, LNone)

\* avro_value_copy: 0 and the copy when the schemas agree, else EINVAL
\* (22) and the destination as it was.
avro_value_copy(ds, d, ss, src) ==
  IF ds = ss THEN [rc |-> 0, v |-> src] ELSE [rc |-> 22, v |-> d]
\* lua_pushboolean of a C int: true for every value but 0.
lua_pushboolean(n) == LBool(n # 0)
\* copy_from of the value d of schema ds from the value src of schema ss;
\* the v of the outcome is the destination afterwards.
l_value_copy_from(ds, d, ss, src) ==
  LET c == avro_value_copy(ds, d, ss, src)
  IN Ok(c.v, NoView, lua_pushboolean(c.rc))

BranchOfPosition_same(n) == n
\* The discriminant of a branch selected by its 1-based Lua position.
BranchOfPosition(n) == n - 1

select_union_branch(s, root, p, a) ==
  LET vs == SchemaAt(s, root, p)
      byname == avro_schema_union_branch_by_name(vs, lua_tostring(a))
      discriminant ==
        IF lua_isnumber(a) THEN BranchOfPosition(lua_tointeger(a)) ELSE byname
  IN IF ~lua_isnumber(a) /\ lua_isstring(a) /\ byname < 0
     THEN Raise(root, "No branch in union")
     ELSE IF ~lua_isnumber(a) /\ ~lua_isstring(a)
     THEN Raise(root, "Can only set string or integer index in union")
     ELSE IF ~BranchExists(vs, discriminant)
     THEN Raise(root, "avro_value_set_branch")
     ELSE Ok(Put(root, p, avro_value_set_branch(vs, discriminant)),
             p \o <<0>>, LNone)

UnionGetSelect_peek(s, root, p, a) ==
  LET r == select_union_branch(s, root, p, a)
  IN IF r.out = "ok" THEN Ok(root, r.view, LNone) ELSE r
\* get on a union with a second argument that is not nil.
UnionGetSelect(s, root, p, a) == select_union_branch(s, root, p, a)

\* luaL_checkinteger, luaL_checknumber: a number or a numeric string.
luaL_isnumberarg(a) == lua_isnumber(a)
\* luaL_checklstring, luaL_checkstring: a string or a number.
luaL_isstringarg(a) == lua_isstring(a)

\* The index pushed with a map entry fetched by key.
MapNameIndex(index) == index

OutOfBounds_off(index, size) == index < 0 \/ index > size
\* The bounds test of get on an array or a map, on the 1-based Lua index.
OutOfBounds(index, size) == index < 1 \/ index > size

l_value_get(s, root, p, a) ==
  LET v == Sub(root, p)
      vs == SchemaAt(s, root, p)
      t == avro_value_get_type(v)
  IN CASE t = "string" ->
            Ok(root, NoView, LStr(BytesStr(SubSeq(v.s, 1, Len(v.s) - 1))))
       [] t = "bytes" -> Ok(root, NoView, LStr(BytesStr(v.s)))
       [] t \in {"int", "long", "float", "double"} ->
            Ok(root, NoView, LNum(v.n))
       [] t = "boolean" -> Ok(root, NoView, LBool(v.t))
       [] t = "null" -> Ok(root, NoView, LNil)
       [] t = "enum" -> Ok(root, NoView, avro_schema_enum_get(vs, v.i))
       [] t = "array" ->
            IF ~luaL_isnumberarg(a) THEN Raise(root, "bad argument #2")
            ELSE LET index == lua_tointeger(a) IN
                 IF OutOfBounds(index, avro_value_get_size(v))
                 THEN NilMsg(root, "Index out of bounds")
                 ELSE Ok(root, p \o <<index - 1>>, LNone)
       [] t = "map" ->
            IF a.t = "none" THEN Raise(root, "Missing index on MapValue:get()")
            ELSE IF lua_isnumber(a)
            THEN LET index == lua_tointeger(a) IN
                 IF OutOfBounds(index, avro_value_get_size(v))
                 THEN NilMsg(root, "Index out of bounds")
                 ELSE Ok(root, p \o <<index - 1>>, LStr(v.m[index].key))
            ELSE IF lua_isstring(a)
            THEN LET index == MapIndex(v, lua_tostring(a)) IN
                 IF index < 0
                 THEN NilMsg(root, "Map element doesn't exist")
                 ELSE Ok(root, p \o <<index>>, LNum(MapNameIndex(index)))
            ELSE Raise(root, "Can only get string or integer index from map")
       [] t = "record" ->
            IF a.t = "none"
            THEN Raise(root, "Missing index on RecordValue:get()")
            ELSE IF lua_isnumber(a)
            THEN LET index == lua_tointeger(a) IN
                 IF index - 1 < 0 \/ index - 1 >= Len(v.f)
                 THEN Raise(root, "avro_value_get_by_index")
                 ELSE Ok(root, p \o <<index - 1>>, LNone)
            ELSE IF lua_isstring(a)
            THEN LET index == FieldIndex(vs, lua_tostring(a)) IN
                 IF index < 0
                 THEN Raise(root, "avro_value_get_by_name")
                 ELSE Ok(root, p \o <<index>>, LNone)
            ELSE Raise(root, "Can only get string or integer index from record")
       [] t = "union" ->
            IF a.t = "none" \/ lua_isnil(a)
            THEN IF v.d < 0 THEN Raise(root, "avro_value_get_current_branch")
                 ELSE Ok(root, p \o <<0>>, LNone)
            ELSE UnionGetSelect(s, root, p, a)

EnumSymbolValue_zero(i) == i
\* The enum case of set: the symbol value of a numeric argument.
EnumSymbolValue(i) == i - 1

l_value_set(s, root, p, a) ==
  LET v == Sub(root, p)
      vs == SchemaAt(s, root, p)
      t == avro_value_get_type(v)
      done(x) == Ok(Put(root, p, x), NoView, LNone)
  IN CASE t = "string" ->
            IF ~luaL_isstringarg(a) THEN Raise(root, "bad argument #2")
            ELSE done(VStr(StrBytes(lua_tostring(a)) \o <<0>>))
       [] t = "bytes" ->
            IF ~luaL_isstringarg(a) THEN Raise(root, "bad argument #2")
            ELSE done(VBytes(StrBytes(lua_tostring(a))))
       [] t = "int" ->
            IF ~luaL_isnumberarg(a) THEN Raise(root, "bad argument #2")
            ELSE done(VInt(ToInt32(luaL_checkinteger(a))))
       [] t = "long" ->
            IF ~luaL_isnumberarg(a) THEN Raise(root, "bad argument #2")
            ELSE done(VLong(lua_tointeger(a)))
       [] t = "float" ->
            IF ~luaL_isnumberarg(a) THEN Raise(root, "bad argument #2")
            ELSE done(VFloat(ToFloat(lua_tointeger(a))))
       [] t = "double" ->
            IF ~luaL_isnumberarg(a) THEN Raise(root, "bad argument #2")
            ELSE done(VDouble(lua_tointeger(a)))
       [] t = "boolean" -> done(VBool(lua_toboolean(a)))
       [] t = "null" -> done(VNull)
       [] t = "enum" ->
            LET byname == avro_schema_enum_get_by_name(vs, lua_tostring(a))
                symbol_value ==
                  IF lua_isnumber(a) THEN EnumSymbolValue(lua_tointeger(a))
                  ELSE byname
            IN IF ~lua_isnumber(a) /\ ~luaL_isstringarg(a)
               THEN Raise(root, "bad argument #2")
               ELSE IF ~lua_isnumber(a) /\ byname < 0
               THEN Raise(root, "No symbol named")
               ELSE IF ~EnumExists(vs, symbol_value)
               THEN Raise(root, "avro_value_set_enum")
               ELSE done(VEnum(symbol_value))
       [] t = "map" ->
            IF ~luaL_isstringarg(a) THEN Raise(root, "bad argument #2")
            ELSE LET key == lua_tostring(a)
                     nv == avro_value_add(vs, v, key)
                 IN Ok(Put(root, p, nv), p \o <<MapIndex(nv, key)>>, LNone)
       [] t = "union" ->
            IF a.t = "none" THEN Raise(root, "Missing index on UnionValue:set()")
            ELSE select_union_branch(s, root, p, a)
       [] OTHER -> Raise(root, "Don't know how to set in value type")

l_value_add(s, root, p, a) ==
  LET v == Sub(root, p)
      vs == SchemaAt(s, root, p)
  IN IF ~luaL_isstringarg(a) THEN Raise(root, "bad argument #2")
     ELSE IF avro_value_get_type(v) # "map"
     THEN Raise(root, "Can only add to an map")
     ELSE LET key == lua_tostring(a)
              nv == avro_value_add(vs, v, key)
          IN Ok(Put(root, p, nv), p \o <<MapIndex(nv, key)>>, LNone)

l_value_append(s, root, p) ==
  LET v == Sub(root, p)
      vs == SchemaAt(s, root, p)
  IN IF avro_value_get_type(v) # "array"
     THEN Raise(root, "Can only append to an array")
     ELSE Ok(Put(root, p, avro_value_append(vs, v)),
             p \o <<avro_value_get_size(v)>>, LNone)

\* ------------------------------------------------------- set_from_ast
TabHas(a, key) == \E i \in 1..Len(a.q) : a.q[i][1] = key
\* lua_rawget, lua_rawgeti: the value stored under a key, nil when absent.
lua_rawget(a, key) ==
  IF TabHas(a, key)
  THEN a.q[CHOOSE i \in 1..Len(a.q) : a.q[i][1] = key][2]
  ELSE LNil
\* lua_objlen: the border of a table (0 for nil).
lua_objlen(a) ==
  IF a.t # "table" THEN 0
  ELSE CHOOSE n \in 0..Len(a.q) :
         /\ \A i \in 1..n : TabHas(a, LNum(i))
         /\ ~TabHas(a, LNum(n + 1))

AstArrayStart_keep(s, root, p) == Ok(root, NoView, LNone)
\* The array case of set_from_ast resets the array before it appends.
AstArrayStart(s, root, p) ==
  Ok(Put(root, p, New(SchemaAt(s, root, p))), NoView, LNone)

AstMapChild_last(nv, key) == Len(nv.m) - 1
\* The map case of set_from_ast fills the entry avro_value_add hands back.
AstMapChild(nv, key) == MapIndex(nv, key)

AstMapStart_reset(s, root, p) ==
  Ok(Put(root, p, New(SchemaAt(s, root, p))), NoView, LNone)
\* The map case of set_from_ast starts from the map as it is.
AstMapStart(s, root, p) == Ok(root, NoView, LNone)

AstRecordStart_reset(s, root, p) ==
  Ok(Put(root, p, New(SchemaAt(s, root, p))), NoView, LNone)
\* The record case of set_from_ast starts from the record as it is.
AstRecordStart(s, root, p) == Ok(root, NoView, LNone)

RECURSIVE l_value_set_from_ast(_, _, _, _)
RECURSIVE ArrayFromAst(_, _, _, _, _)
RECURSIVE MapFromAst(_, _, _, _, _)
RECURSIVE RecordFromAst(_, _, _, _, _)

\* The loop of the array case, from element i (0-based) on.
ArrayFromAst(s, root, p, a, i) ==
  IF i >= lua_objlen(a) THEN Ok(root, NoView, LNone)
  ELSE LET nv == avro_value_append(SchemaAt(s, root, p), Sub(root, p))
           r == l_value_set_from_ast(s, Put(root, p, nv),
                                     p \o <<Len(nv.e) - 1>>,
                                     lua_rawget(a, LNum(i + 1)))
       IN IF r.out # "ok" THEN Raise(r.v, r.msg)
          ELSE ArrayFromAst(s, r.v, p, a, i + 1)

\* The loop of the map case, from the j-th pair lua_next returns on.
MapFromAst(s, root, p, a, j) ==
  IF j > Len(a.q) THEN Ok(root, NoView, LNone)
  ELSE LET key == lua_tostring(a.q[j][1])
           nv == avro_value_add(SchemaAt(s, root, p), Sub(root, p), key)
           r == l_value_set_from_ast(s, Put(root, p, nv),
                                     p \o <<AstMapChild(nv, key)>>,
                                     lua_rawget(a, a.q[j][1]))
       IN IF r.out # "ok" THEN Raise(r.v, r.msg)
          ELSE MapFromAst(s, r.v, p, a, j + 1)

\* The loop of the record case: get() of the key, then the field is filled.
RecordFromAst(s, root, p, a, j) ==
  IF j > Len(a.q) THEN Ok(root, NoView, LNone)
  ELSE LET g == l_value_get(s, root, p, a.q[j][1])
           r == l_value_set_from_ast(s, g.v, g.view, a.q[j][2])
       IN IF g.out # "ok" THEN Raise(g.v, g.msg)
          ELSE IF r.out # "ok" THEN Raise(r.v, r.msg)
          ELSE RecordFromAst(s, r.v, p, a, j + 1)

l_value_set_from_ast(s, root, p, a) ==
  LET t == avro_value_get_type(Sub(root, p))
      done(r) == IF r.out = "raise" THEN r ELSE Ok(r.v, NoView, LNone)
  IN CASE t \in {"boolean", "null", "enum"} -> done(l_value_set(s, root, p, a))
       [] t \in {"bytes", "string"} ->
            IF ~luaL_isstringarg(a) THEN Raise(root, "bad argument #2")
            ELSE done(l_value_set(s, root, p, a))
       [] t \in {"int", "long", "float", "double"} ->
            IF ~luaL_isnumberarg(a) THEN Raise(root, "bad argument #2")
            ELSE done(l_value_set(s, root, p, a))
       [] t = "array" ->
            ArrayFromAst(s, AstArrayStart(s, root, p).v, p, a, 0)
       [] t = "map" -> MapFromAst(s, AstMapStart(s, root, p).v, p, a, 1)
       [] t = "record" ->
            RecordFromAst(s, AstRecordStart(s, root, p).v, p, a, 1)
       [] t = "union" ->
            IF lua_isnil(a)
            THEN LET b == select_union_branch(s, root, p, LStr("null")) IN
                 IF b.out # "ok" THEN b
                 ELSE done(l_value_set_from_ast(s, b.v, b.view, LNil))
            ELSE IF Len(a.q) = 0
            THEN Raise(root, "Union AST must have exactly one element")
            ELSE LET b == select_union_branch(s, root, p, a.q[1][1]) IN
                 IF b.out # "ok" THEN b
                 ELSE done(l_value_set_from_ast(s, b.v, b.view, a.q[1][2]))
       [] OTHER -> Raise(root, "Unknown Avro value type")

\* ---------------------------------------------------------- iterators
FirstIndex_one == 0 + 1
\* create_iterator: the cursor of a new iterator.
FirstIndex == 0

\* struct _Iterator, bound to the root wrapper it was created from, with the
\* history of the iterator: size0 (the size at creation), touched (the value
\* was modified since) and yielded (the pairs returned so far).
create_iterator(kind, size) ==
  [kind |-> kind, next_index |-> FirstIndex, size0 |-> size,
   touched |-> FALSE, yielded |-> <<>>]

l_value_iterate(s, root, p) ==
  IF avro_value_get_type(Sub(root, p)) \in {"array", "map"}
  THEN Ok(root, NoView, LNone)
  ELSE Raise(root, "Can only iterate through arrays and maps")

IterLength_cached(root, it) == it.size0
\* The length an iterator step compares its cursor with.
IterLength(root, it) == avro_value_get_size(root)

IterAdvance_stay(n) == n
\* The cursor after a step that returned a pair.
IterAdvance(n) == n + 1

\* iterate_array: (1-based position, element) or nothing.
iterate_array(root, it) ==
  IF it.next_index >= IterLength(root, it)
  THEN Result("end", root, NoView, LNone, "")
  ELSE Ok(root, <<it.next_index>>, LNum(it.next_index + 1))

\* iterate_map: (key, element) or nothing.
iterate_map(root, it) ==
  IF it.next_index >= IterLength(root, it)
  THEN Result("end", root, NoView, LNone, "")
  ELSE Ok(root, <<it.next_index>>, LStr(root.m[it.next_index + 1].key))

\* ------------------------------------------------- the binary codec
\* A Lua string that holds encoded bytes, kept as the bytes.
LBin(b) == [t |-> "string", b |-> b]

\* The zig-zag code of a long and its variable-length bytes: 7 bits a
\* byte, low bits first, the high bit set on all but the last byte.
ZigZag(n) == IF n >= 0 THEN 2 * n ELSE -2 * n - 1
UnZigZag(u) == IF u % 2 = 0 THEN u \div 2 ELSE -((u + 1) \div 2)
RECURSIVE Varint(_)
Varint(u) ==
  IF u < 128 THEN <<u>> ELSE <<128 + (u % 128)>> \o Varint(u \div 128)
write_long(n) == Varint(ZigZag(n))

\* IEEE-754, little-endian.  ByteOf: byte j of x * 2^k.  The exponent e and
\* the fraction x of a whole number a >= 1, a = 2^e + x.
ByteOf(x, k, j) ==
  IF k >= 8 * j
  THEN IF k - 8 * j >= 8 THEN 0 ELSE ((x % 256) * 2 ^ (k - 8 * j)) % 256
  ELSE (x \div 2 ^ (8 * j - k)) % 256
SignBit(n) == IF n < 0 THEN 128 ELSE 0
write_float(n) ==
  LET e == Log2(Abs(n))
      x == Abs(n) - 2 ^ e
  IN IF n = 0 THEN <<0, 0, 0, 0>>
     ELSE <<ByteOf(x, 23 - e, 0), ByteOf(x, 23 - e, 1),
            (ByteOf(x, 23 - e, 2) % 128) + 128 * ((e + 127) % 2),
            ((e + 127) \div 2) + SignBit(n)>>
write_double(n) ==
  LET e == Log2(Abs(n))
      x == Abs(n) - 2 ^ e
  IN IF n = 0 THEN <<0, 0, 0, 0, 0, 0, 0, 0>>
     ELSE <<ByteOf(x, 52 - e, 0), ByteOf(x, 52 - e, 1), ByteOf(x, 52 - e, 2),
            ByteOf(x, 52 - e, 3), ByteOf(x, 52 - e, 4), ByteOf(x, 52 - e, 5),
            (ByteOf(x, 52 - e, 6) % 16) + 16 * ((e + 1023) % 16),
            ((e + 1023) \div 16) + SignBit(n)>>
write_bytes(b) == write_long(Len(b)) \o b

RECURSIVE Concat(_)
Concat(q) == IF q = <<>> THEN <<>> ELSE Head(q) \o Concat(Tail(q))

\* Every union of the value has a selected branch
\* (avro_value_get_current_branch fails on a union that has none).
RECURSIVE Selected(_)
Selected(v) ==
  /\ v.k = "union" => v.d >= 0
  /\ \A i \in 1..Len(Children(v)) : Selected(Children(v)[i])

\* avro_value_write: the bytes of a value all of whose unions are selected.
RECURSIVE avro_value_write(_)
avro_value_write(v) ==
  CASE v.k = "null" -> <<>>
    [] v.k = "boolean" -> IF v.t THEN <<1>> ELSE <<0>>
    [] v.k \in {"int", "long"} -> write_long(v.n)
    [] v.k = "float" -> write_float(v.n)
    [] v.k = "double" -> write_double(v.n)
    [] v.k = "string" -> write_bytes(SubSeq(v.s, 1, Len(v.s) - 1))
    [] v.k = "bytes" -> write_bytes(v.s)
    [] v.k = "enum" -> write_long(v.i)
    [] v.k = "array" ->
         IF Len(v.e) = 0 THEN <<0>>
         ELSE write_long(Len(v.e))
                \o Concat([i \in 1..Len(v.e) |-> avro_value_write(v.e[i])])
                \o <<0>>
    [] v.k = "map" ->
         IF Len(v.m) = 0 THEN <<0>>
         ELSE write_long(Len(v.m))
                \o Concat([i \in 1..Len(v.m) |->
                             write_bytes(StrBytes(v.m[i].key))
                               \o avro_value_write(v.m[i].val)])
                \o <<0>>
    [] v.k = "record" ->
         Concat([i \in 1..Len(v.f) |-> avro_value_write(v.f[i])])
    [] v.k = "union" -> write_long(v.d) \o avro_value_write(v.b)

\* The number of bytes of a long and of a byte sequence on the wire.
RECURSIVE VarintLen(_)
VarintLen(u) == IF u < 128 THEN 1 ELSE 1 + VarintLen(u \div 128)
sizeof_long(n) == VarintLen(ZigZag(n))
sizeof_bytes(b) == sizeof_long(Len(b)) + Len(b)

RECURSIVE Sum(_)
Sum(q) == IF q = <<>> THEN 0 ELSE Head(q) + Sum(Tail(q))

\* avro_value_sizeof: the serialized length of a value, by structural
\* recursion.
RECURSIVE avro_value_sizeof(_)
avro_value_sizeof(v) ==
  CASE v.k = "null" -> 0
    [] v.k = "boolean" -> 1
    [] v.k \in {"int", "long"} -> sizeof_long(v.n)
    [] v.k = "float" -> 4
    [] v.k = "double" -> 8
    [] v.k = "string" -> sizeof_bytes(SubSeq(v.s, 1, Len(v.s) - 1))
    [] v.k = "bytes" -> sizeof_bytes(v.s)
    [] v.k = "enum" -> sizeof_long(v.i)
    [] v.k = "array" ->
         IF Len(v.e) = 0 THEN 1
         ELSE sizeof_long(Len(v.e))
                + Sum([i \in 1..Len(v.e) |-> avro_value_sizeof(v.e[i])]) + 1
    [] v.k = "map" ->
         IF Len(v.m) = 0 THEN 1
         ELSE sizeof_long(Len(v.m))
                + Sum([i \in 1..Len(v.m) |->
                         sizeof_bytes(StrBytes(v.m[i].key))
                           + avro_value_sizeof(v.m[i].val)])
                + 1
    [] v.k = "record" ->
         Sum([i \in 1..Len(v.f) |-> avro_value_sizeof(v.f[i])])
    [] v.k = "union" -> sizeof_long(v.d) + avro_value_sizeof(v.b)

\* The outcome of reading from bytes: the value read and the bytes left.
Rd(v, rest) == [ok |-> TRUE, v |-> v, rest |-> rest]
RdFail == [ok |-> FALSE, v |-> VNone, rest |-> <<>>]

RECURSIVE ReadVarint(_)
ReadVarint(b) ==
  IF b = <<>> THEN RdFail
  ELSE IF Head(b) < 128 THEN Rd(Head(b), Tail(b))
  ELSE LET r == ReadVarint(Tail(b)) IN
       IF ~r.ok THEN RdFail ELSE Rd((Head(b) - 128) + 128 * r.v, r.rest)
read_long(b) ==
  LET r == ReadVarint(b) IN IF ~r.ok THEN RdFail ELSE Rd(UnZigZag(r.v), r.rest)
\* The whole number m * 2^s, cut to a whole number when s < 0.
Scale(m, s) ==
  IF s >= 0 THEN m * 2 ^ s ELSE IF s < -30 THEN 0 ELSE m \div 2 ^ (-s)
Signed(sign, a) == IF sign >= 128 THEN -a ELSE a
read_float(b) ==
  IF Len(b) < 4 THEN RdFail
  ELSE LET e == (b[4] % 128) * 2 + (b[3] \div 128) - 127
           m == b[1] + 256 * b[2] + 65536 * (b[3] % 128)
       IN Rd(IF e = -127 /\ m = 0 THEN 0
             ELSE IF e < 0 THEN 0
             ELSE Signed(b[4], Scale(2 ^ 23 + m, e - 23)),
             SubSeq(b, 5, Len(b)))
read_double(b) ==
  IF Len(b) < 8 THEN RdFail
  ELSE LET e == (b[8] % 128) * 16 + (b[7] \div 16) - 1023
           m == (b[7] % 16) * 2 ^ 27 + b[6] * 2 ^ 19 + b[5] * 2 ^ 11
                  + b[4] * 8 + (b[3] \div 32)
       IN Rd(IF e < 0 THEN 0 ELSE Signed(b[8], 2 ^ e + Scale(m, e - 31)),
             SubSeq(b, 9, Len(b)))
read_bytes(b) ==
  LET n == read_long(b) IN
  IF ~n.ok \/ n.v < 0 \/ n.v > Len(n.rest) THEN RdFail
  ELSE Rd(SubSeq(n.rest, 1, n.v), SubSeq(n.rest, n.v + 1, Len(n.rest)))

\* The resolution of a writer schema against a reader schema: equal
\* primitive types, the numeric widenings, string and bytes to each other, arrays,
\* maps and records part by part, a non-union writer against the reader
\* union some branch of which it resolves against; the branches of a writer
\* union are resolved one by one when a value is decoded.
RECURSIVE Resolves(_, _)
Resolves(w, r) ==
  IF w.type = "union" THEN TRUE
  ELSE IF r.type = "union"
  THEN \E i \in 1..Len(r.branches) : Resolves(w, r.branches[i])
  ELSE CASE w.type = "int" -> r.type \in {"int", "long", "float", "double"}
         [] w.type = "long" -> r.type \in {"long", "float", "double"}
         [] w.type = "float" -> r.type \in {"float", "double"}
         [] w.type \in {"string", "bytes"} -> r.type \in {"string", "bytes"}
         [] w.type \in {"array"} ->
              r.type = "array" /\ Resolves(w.items, r.items)
         [] w.type = "map" -> r.type = "map" /\ Resolves(w.values, r.values)
         [] w.type = "record" ->
              /\ r.type = "record" /\ Len(r.fields) = Len(w.fields)
              /\ \A i \in 1..Len(w.fields) :
                   /\ r.fields[i].name = w.fields[i].name
                   /\ Resolves(w.fields[i].schema, r.fields[i].schema)
         [] w.type = "enum" -> r.type = "enum" /\ r.symbols = w.symbols
         [] OTHER -> r.type = w.type

\* The reader branch a writer schema is decoded into: the first branch of
\* the reader union that the writer schema resolves against.
ReaderBranch(w, r) ==
  CHOOSE i \in 1..Len(r.branches) :
    /\ Resolves(w, r.branches[i])
    /\ \A j \in 1..(i - 1) : ~Resolves(w, r.branches[j])

\* The outcome x of a read, continued by wrapping the value read.
RdUnion(i, x) == IF ~x.ok THEN RdFail ELSE Rd(VUni(i - 1, x.v), x.rest)
RdEntry(key, x) ==
  IF ~x.ok THEN RdFail ELSE Rd(Entry(BytesStr(key), x.v), x.rest)
RdArray(x) == IF ~x.ok THEN RdFail ELSE Rd(VArr(x.v), x.rest)
RdMap(x) == IF ~x.ok THEN RdFail ELSE Rd(VMap(x.v), x.rest)
RdRecord(x) == IF ~x.ok THEN RdFail ELSE Rd(VRec(x.v), x.rest)
RdNumber(r, n) ==
  IF ~n.ok THEN RdFail
  ELSE Rd(CASE r.type = "int" -> VInt(n.v)
            [] r.type = "long" -> VLong(n.v)
            [] r.type = "float" -> VFloat(ToFloat(n.v))
            [] r.type = "double" -> VDouble(n.v),
          n.rest)
RdString(r, s) ==
  IF ~s.ok THEN RdFail
  ELSE Rd(IF r.type = "string" THEN VStr(s.v \o <<0>>) ELSE VBytes(s.v),
          s.rest)
RdEnum(r, n) ==
  IF ~n.ok THEN RdFail
  ELSE IF ~EnumExists(r, n.v) THEN RdFail ELSE Rd(VEnum(n.v), n.rest)

RECURSIVE read_value(_, _, _)
RECURSIVE ReadBranch(_, _, _)
RECURSIVE ReadEntry(_, _, _)
RECURSIVE ReadItems(_, _, _, _, _)
RECURSIVE ItemsNext(_, _, _, _, _)
RECURSIVE ReadBlocks(_, _, _, _)
RECURSIVE BlocksAt(_, _, _, _)
RECURSIVE BlockSized(_, _, _, _, _)
RECURSIVE BlocksNext(_, _, _)
RECURSIVE ReadFields(_, _, _, _, _)
RECURSIVE FieldsNext(_, _, _, _, _)

\* The branch of a writer union named by the discriminant d read.
ReadBranch(w, r, d) ==
  IF ~d.ok THEN RdFail
  ELSE IF d.v < 0 \/ d.v >= Len(w.branches) THEN RdFail
  ELSE read_value(w.branches[d.v + 1], r, d.rest)

\* A map entry whose key has been read.
ReadEntry(w, r, key) ==
  IF ~key.ok THEN RdFail
  ELSE RdEntry(key.v, read_value(w.values, r.values, key.rest))

\* n items of an array (the elements) or a map (the entries) appended to acc.
ReadItems(w, r, b, n, acc) ==
  IF n = 0 THEN Rd(acc, b)
  ELSE ItemsNext(w, r, n, acc,
                 IF w.type = "array" THEN read_value(w.items, r.items, b)
                 ELSE ReadEntry(w, r, read_bytes(b)))
ItemsNext(w, r, n, acc, x) ==
  IF ~x.ok THEN RdFail ELSE ReadItems(w, r, x.rest, n - 1, Append(acc, x.v))

\* The blocks of an array or a map up to the block of count zero; a block of
\* negative count c carries its size in bytes after the count.
ReadBlocks(w, r, b, acc) == BlocksAt(w, r, read_long(b), acc)
BlocksAt(w, r, c, acc) ==
  IF ~c.ok THEN RdFail
  ELSE IF c.v = 0 THEN Rd(acc, c.rest)
  ELSE IF c.v < 0 THEN BlockSized(w, r, -c.v, read_long(c.rest), acc)
  ELSE BlocksNext(w, r, ReadItems(w, r, c.rest, c.v, acc))
BlockSized(w, r, n, size, acc) ==
  IF ~size.ok THEN RdFail
  ELSE BlocksNext(w, r, ReadItems(w, r, size.rest, n, acc))
BlocksNext(w, r, x) ==
  IF ~x.ok THEN RdFail ELSE ReadBlocks(w, r, x.rest, x.v)

ReadFields(w, r, b, i, acc) ==
  IF i > Len(w.fields) THEN Rd(acc, b)
  ELSE FieldsNext(w, r, i, acc,
                  read_value(w.fields[i].schema, r.fields[i].schema, b))
FieldsNext(w, r, i, acc, x) ==
  IF ~x.ok THEN RdFail ELSE ReadFields(w, r, x.rest, i + 1, Append(acc, x.v))

\* The value of reader schema r read from the bytes of a value written
\* with schema w.
read_value(w, r, b) ==
  IF w.type = "union" THEN ReadBranch(w, r, read_long(b))
  ELSE IF ~Resolves(w, r) THEN RdFail
  ELSE IF r.type = "union"
  THEN RdUnion(ReaderBranch(w, r),
               read_value(w, r.branches[ReaderBranch(w, r)], b))
  ELSE CASE w.type = "null" -> Rd(VNull, b)
         [] w.type = "boolean" ->
              IF b = <<>> THEN RdFail ELSE Rd(VBool(Head(b) # 0), Tail(b))
         [] w.type \in {"int", "long"} -> RdNumber(r, read_long(b))
         [] w.type = "float" -> RdNumber(r, read_float(b))
         [] w.type = "double" -> RdNumber(r, read_double(b))
         [] w.type \in {"string", "bytes"} -> RdString(r, read_bytes(b))
         [] w.type = "enum" -> RdEnum(r, read_long(b))
         [] w.type = "array" -> RdArray(ReadBlocks(w, r, b, <<>>))
         [] w.type = "map" -> RdMap(ReadBlocks(w, r, b, <<>>))
         [] w.type = "record" -> RdRecord(ReadFields(w, r, b, 1, <<>>))

\* avro_value_read through a resolved writer (writer schema w) bound to a
\* destination of schema r: the destination is reset, then filled.  What a
\* failed read leaves in the destination beyond the reset is not modelled.
RdReset(r, x) == IF x.ok THEN x ELSE [ok |-> FALSE, v |-> New(r), rest |-> <<>>]
avro_value_read(w, r, b) == RdReset(r, read_value(w, r, b))

RECURSIVE CString(_)
CString(b) ==
  IF b = <<>> \/ Head(b) = 0 THEN <<>> ELSE <<Head(b)>> \o CString(Tail(b))
PushedString_cstr(b, size) == CString(b)
\* lua_pushlstring: the Lua string of the first size bytes of the buffer.
PushedString(b, size) == SubSeq(b, 1, size)

\* What encode finds in memory: malloc fails or not (oom), and the byte
\* (fill) that the buffer, static or fresh from malloc, holds where nothing
\* is written.
EncodeEnvs == [oom : BOOLEAN, fill : {0, 255}]
NoFault == [oom |-> FALSE, fill |-> 0]

WriterCapacity_less(size) == size - 1
\* avro_writer_memory(buf, size): the writer may write size bytes.
WriterCapacity(size) == size

\* avro_value_write to a memory writer: it fails when the bytes do not fit,
\* else the buffer holds the bytes, and what it held before after them.
avro_writer_write(cap, size, fill, bytes) ==
  IF Len(bytes) > cap THEN [ok |-> FALSE, buf |-> <<>>]
  ELSE [ok |-> TRUE,
        buf |-> bytes \o [i \in 1..(size - Len(bytes)) |-> fill]]

\* sizeof(static_buf), the size of the static buffer of encode: 65536 in
\* the source, scaled down to MaxStatic so that values of a few bytes come to
\* lie on either side of it.
static_buf_size == MaxStatic
\* The buffer encode writes to: the static one, or one from malloc.
EncodeBuffer(size) == IF size <= static_buf_size THEN "static" ELSE "heap"

\* encode: the size of the value is computed, the value is written to a
\* buffer of that size and the buffer is returned as a string.
l_value_encode(s, root, p, env) ==
  LET v == Sub(root, p) IN
  IF ~Selected(v) THEN Raise(root, "Union has no selected branch")
  ELSE LET size == avro_value_sizeof(v)
           w == avro_writer_write(WriterCapacity(size), size, env.fill,
                                  avro_value_write(v))
       IN IF EncodeBuffer(size) = "heap" /\ env.oom
          THEN NilMsg(root, "Out of memory")
          ELSE IF ~w.ok THEN NilMsg(root, "avro_value_write")
          ELSE Ok(root, NoView, LBin(PushedString(w.buf, size)))

l_value_encoded_size(s, root, p) ==
  LET v == Sub(root, p) IN
  IF ~Selected(v) THEN Raise(root, "Union has no selected branch")
  ELSE Ok(root, NoView, LNum(avro_value_sizeof(v)))

\* struct _LuaAvroResolvedWriter: the resolver of a writer schema w against
\* a reader schema r, and the destination its value is bound to (0: none
\* yet, 1: dest, 2: dest2); with the history of the resolver: failed (the
\* input of the last decode through it that failed).
Resolver(w, r) ==
  [ok |-> TRUE, w |-> w, r |-> r, dest |-> 0, failed |-> LNone]
NoResolver == [ok |-> FALSE]

avro_resolved_writer_set_dest_keep(res, k) ==
  IF res.dest = 0 THEN [res EXCEPT !.dest = k] ELSE res
\* avro_resolved_writer_set_dest: the resolver's value is bound to the
\* destination of this call.
avro_resolved_writer_set_dest(res, k) == [res EXCEPT !.dest = k]

\* avro_resolved_writer_new: the resolver of the two schemas, none when the
\* writer schema does not resolve against the reader schema.
avro_resolved_writer_new(w, r) ==
  IF Resolves(w, r) THEN Resolver(w, r) ELSE NoResolver

ResolverIsNull_never(res) == FALSE
\* resolver == NULL
ResolverIsNull(res) == ~res.ok

\* ResolvedWriter(writer, reader): nil and a message when the library hands
\* back no resolver, else the resolver (the v of the outcome).
l_resolved_writer_new(w, r) ==
  LET res == avro_resolved_writer_new(w, r) IN
  IF ResolverIsNull(res) THEN NilMsg(NoResolver, "avro_resolved_writer_new")
  ELSE Ok(res, NoView, LNone)

DecodeOutcome_true(x) == Ok(x.v, NoView, LBool(TRUE))
DecodeOutcome_raise(x) ==
  IF ~x.ok THEN Raise(x.v, "avro_value_read")
  ELSE Ok(x.v, NoView, LBool(TRUE))
\* The outcome of decode after avro_value_read returned x.
DecodeOutcome(x) ==
  IF ~x.ok THEN NilMsg(x.v, "avro_value_read")
  ELSE Ok(x.v, NoView, LBool(TRUE))

\* decode of a resolver with writer schema w into the value d of schema r;
\* the v of the outcome is the destination afterwards.
l_resolved_writer_decode(w, r, d, a) ==
  IF ~luaL_isstringarg(a) THEN Raise(d, "bad argument #2")
  ELSE DecodeOutcome(avro_value_read(w, r, a.b))

\* ------------------------------------------------ wrappers and storage
\* The heap: the LuaAvroValue userdata created so far and the reference
\* count of every storage that avro_generic_value_new allocated.
NULL == 0
NoHeap == [wrappers |-> <<>>, refcount |-> <<>>]
\* struct _LuaAvroValue. self: the storage the wrapped avro_value_t points
\* into (NULL: none). History, not in the struct: view (pushed for a child
\* of another wrapper's value), own (the storage allocated for it) and
\* releases (the calls of release since then).
LuaAvroValue(self, should_decref) ==
  [self |-> self, should_decref |-> should_decref,
   view |-> ~should_decref, own |-> IF should_decref THEN self ELSE NULL,
   releases |-> 0]
lua_avro_push_value(h, self, should_decref) ==
  [h EXCEPT !.wrappers = Append(@, LuaAvroValue(self, should_decref))]
\* avro_generic_value_new: a storage with one reference.
avro_generic_value_new(h) == [h EXCEPT !.refcount = Append(@, 1)]
avro_value_decref(h, self) == [h EXCEPT !.refcount[self] = @ - 1]

\* The fields of the wrapper after release.
Released_armed(w) == [w EXCEPT !.releases = @ + 1]
Released(w) ==
  [w EXCEPT !.self = NULL, !.should_decref = FALSE, !.releases = @ + 1]
l_value_release(h, k) ==
  LET w == h.wrappers[k]
      h1 == IF w.should_decref /\ w.self # NULL
            THEN avro_value_decref(h, w.self) ELSE h
  IN [h1 EXCEPT !.wrappers[k] = Released(w)]

\* What new_raw_value meets: no failure, a failure of
\* avro_generic_class_from_schema, or a failure of avro_generic_value_new.
NewValueFaults == {"none", "iface", "value"}
\* avro_generic_value_new that fails leaves NULL in the value it was to
\* fill; the wrapper then owns no storage.
FailedNew(w) == [w EXCEPT !.self = NULL, !.own = NULL]
ReuseDecref_none(h, w) == h
\* new_raw_value with a wrapper to reuse drops the storage the wrapper
\* owns.
ReuseDecref(h, w) ==
  IF w.should_decref /\ w.self # NULL
  THEN avro_value_decref(h, w.self) ELSE h
\* new_raw_value of a schema: with no second argument a wrapper of a new
\* storage is pushed; with the wrapper k as second argument, k drops the
\* storage it owns and wraps a new one. A failure raises at the place it
\* happens.
l_schema_new_raw_value(h, k, fault) ==
  IF fault = "iface" THEN h
  ELSE IF k = 0
  THEN IF fault = "value" THEN h
       ELSE LET h1 == avro_generic_value_new(h)
            IN lua_avro_push_value(h1, Len(h1.refcount), TRUE)
  ELSE LET w == h.wrappers[k]
           h1 == ReuseDecref(h, w)
           h2 == avro_generic_value_new(h1)
       IN IF fault = "value"
          THEN [h1 EXCEPT !.wrappers[k] = FailedNew(w)]
          ELSE [h2 EXCEPT !.wrappers[k] =
                  LuaAvroValue(Len(h2.refcount), TRUE)]

\* The handlers that start with lua_avro_get_value and a call through the
\* interface of the value ("step": iterate_array and iterate_map, through
\* the pointer the iterator keeps to the value of the wrapper).
UseOps ==
  {"type", "get", "set", "size", "append", "add", "encode", "iterate",
   "step"}
\* A call through a NULL interface is undefined: the process is stopped by
\* the fault, or runs on with what it read.
NullIfaceOutcomes == {"abort", "ok"}
\* lua_avro_get_value hands the value of the wrapper to the handler as it
\* is; the outcome of the first call through its interface. In the wrapper
\* the interface and self are NULL together.
ValueCall(h, k, undefined) ==
  IF h.wrappers[k].self = NULL THEN undefined ELSE "ok"

\* The handlers that push a wrapper of a child of the value of a wrapper:
\* get, append, add, set (branch selection), set_from_ast, iterator step.
ViewOps == {"get", "append", "add", "set", "set_from_ast", "step"}
PushChild(h, k) == lua_avro_push_value(h, h.wrappers[k].self, FALSE)

\* ------------------------------------------------ schema wrappers
\* The heap of a session about schemas: the LuaAvroSchema userdata created
\* so far, the reference count of every schema and of every value
\* interface (avro_generic_class_from_schema) allocated.
NoSchemas == [l_schemas |-> <<>>, refcount |-> <<>>, iface_refcount |-> <<>>]
\* struct _LuaAvroSchema; gcs: the runs of the finalizer so far (history).
LuaAvroSchema(schema, iface) ==
  [schema |-> schema, iface |-> iface, gcs |-> 0]
avro_schema_incref(h, schema) == [h EXCEPT !.refcount[schema] = @ + 1]
avro_schema_decref(h, schema) == [h EXCEPT !.refcount[schema] = @ - 1]
avro_value_iface_decref(h, iface) ==
  [h EXCEPT !.iface_refcount[iface] = @ - 1]
lua_avro_push_schema(h, schema) ==
  [avro_schema_incref(h, schema) EXCEPT
     !.l_schemas = Append(@, LuaAvroSchema(schema, NULL))]
\* avro_schema_int() and the like, avro_schema_from_json: a schema with
\* one reference, which the caller holds.
avro_schema_from_json(h) == [h EXCEPT !.refcount = Append(@, 1)]

SchemaNewDecref_none(h, schema) == h
\* l_schema_new gives up the reference it got from the constructor.
SchemaNewDecref(h, schema) == avro_schema_decref(h, schema)
\* Schema(text): the schema is constructed and wrapped.
l_schema_new(h) ==
  LET h1 == avro_schema_from_json(h)
      schema == Len(h1.refcount)
  IN SchemaNewDecref(lua_avro_push_schema(h1, schema), schema)
\* new_raw_schema(pointer): another wrapper of a schema.
l_new_raw_schema(h, schema) == lua_avro_push_schema(h, schema)
\* The head of new_raw_value: the value interface of the schema is created
\* at the first call and cached in the wrapper.
SchemaIface(h, k) ==
  IF h.l_schemas[k].iface # NULL THEN h
  ELSE [h EXCEPT !.iface_refcount = Append(@, 1),
                 !.l_schemas[k].iface = Len(h.iface_refcount) + 1]
l_schema_gc(h, k) ==
  LET w == h.l_schemas[k]
      h1 == IF w.schema # NULL THEN avro_schema_decref(h, w.schema) ELSE h
      h2 == IF w.iface # NULL THEN avro_value_iface_decref(h1, w.iface)
            ELSE h1
  IN [h2 EXCEPT !.l_schemas[k] =
        [schema |-> NULL, iface |-> NULL, gcs |-> w.gcs + 1]]

\* ------------------------------------------------ data files
\* The heap of a session about files: the LuaAvroDataInputFile and
\* LuaAvroDataOutputFile userdata created so far, for every file handle the
\* library opened the number of times it was closed, and the reference
\* count of every value interface created for an input file.
NoFiles == [l_files |-> <<>>, closed |-> <<>>, iface_refcount |-> <<>>]
\* struct _LuaAvroDataInputFile (mode "r": reader, iface) and struct
\* _LuaAvroDataOutputFile (mode "w": writer). handle: the reader or the
\* writer. History: opened and made (the handle and the interface the
\* wrapper was created with), closes (the calls of close so far), dead
\* (the finalizer ran).
LuaAvroDataFile(mode, handle, iface) ==
  [mode |-> mode, handle |-> handle, iface |-> iface,
   opened |-> handle, made |-> iface, closes |-> 0, dead |-> FALSE]
\* avro_file_reader, avro_file_writer_create: a new open handle.
avro_file_open(h) == [h EXCEPT !.closed = Append(@, 0)]
\* avro_file_reader_close, avro_file_writer_close.
avro_file_close(h, handle) == [h EXCEPT !.closed[handle] = @ + 1]
lua_avro_push_file_reader(h, reader) ==
  [h EXCEPT !.iface_refcount = Append(@, 1),
            !.l_files = Append(@, LuaAvroDataFile("r", reader,
                                    Len(h.iface_refcount) + 1))]
lua_avro_push_file_writer(h, writer) ==
  [h EXCEPT !.l_files = Append(@, LuaAvroDataFile("w", writer, NULL))]
\* open(path, mode): nil and a message when the library cannot open the
\* file, else the wrapper of the new handle.
l_file_open(h, mode, fails) ==
  IF fails THEN h
  ELSE LET h1 == avro_file_open(h) IN
       IF mode = "r" THEN lua_avro_push_file_reader(h1, Len(h1.closed))
       ELSE lua_avro_push_file_writer(h1, Len(h1.closed))

FileClosed_open(w) == [w EXCEPT !.closes = @ + 1]
\* The fields of a file wrapper after close.
FileClosed(w) ==
  [w EXCEPT !.handle = NULL, !.iface = NULL, !.closes = @ + 1]
l_input_file_close(h, k) ==
  LET w == h.l_files[k]
      h1 == IF w.handle # NULL THEN avro_file_close(h, w.handle) ELSE h
      h2 == IF w.iface # NULL THEN avro_value_iface_decref(h1, w.iface)
            ELSE h1
  IN [h2 EXCEPT !.l_files[k] = FileClosed(w)]
l_output_file_close(h, k) ==
  LET w == h.l_files[k]
      h1 == IF w.handle # NULL THEN avro_file_close(h, w.handle) ELSE h
  IN [h1 EXCEPT !.l_files[k] = FileClosed(w)]
\* close, and the __gc of the metatable, of a file wrapper.
l_file_close(h, k) ==
  IF h.l_files[k].mode = "r" THEN l_input_file_close(h, k)
  ELSE l_output_file_close(h, k)

\* ------------------------------------------------ the session machine
VARIABLES
  schema,   \* the schema of the root value of the session
  val,      \* the root value
  iters,    \* the iterators created so far
  last,     \* the last handler call: its arguments, outcome, pre-state
  buf,      \* the string the last successful encode returned
  dest,     \* a second value of the schema, the destination of decodes
  resolver, \* the resolved writer of the session
  dest2,    \* another destination of decodes (VNone: not created)
  heap      \* the value wrappers and the storage of the values they wrap

vars == <<schema, val, iters, last, buf, dest, resolver, dest2, heap>>

SUni3 == SUnion(<<SNull, SInt, SString>>)
SRec2 == SRecord(<<Field("f", SInt), Field("g", SString)>>)
SRecU == SRecord(<<Field("f", SInt), Field("u", SUnion(<<SNull, SString>>))>>)
SessionSchemas == {SInt, SEnum, SArray(SInt), SMap(SInt), SRec2, SUni3, SRecU}

\* The arguments a call is tried with, by handler and type of the value.
Indexes == {LNum(n) : n \in 0..(MaxLen + 1)}
GetArgs(t) ==
  CASE t = "array" -> {LNone, LStr("1")} \cup Indexes
    [] t = "map" -> {LNone, LNil, LStr("a"), LStr("1"), LStr("zz")} \cup Indexes
    [] t = "record" -> {LNone, LStr("f"), LStr("1"), LStr("zz")} \cup Indexes
    [] t = "union" ->
         {LNone, LNil, LStr("int"), LStr("string"), LStr("zz")} \cup
         {LNum(n) : n \in 0..4}
    [] OTHER -> {LNone}
SetArgs(t) ==
  CASE t = "int" -> {LNum(1), LStr("1"), LStr("a"), LWide(1, 1)}
    [] t = "string" -> {LStr("a"), LStr("1"), LNil}
    [] t = "enum" ->
         {LNum(1), LNum(2), LNum(3), LStr("A"), LStr("B"), LStr("zz")}
    [] t = "map" -> {LStr("a"), LStr("1"), LNone}
    [] t = "union" ->
         {LNone, LStr("int"), LStr("string"), LStr("zz")} \cup
         {LNum(n) : n \in 0..4}
    [] OTHER -> {LNum(1)}
AddArgs(t) == {LStr("a"), LStr("1"), LNil}

\* The record of a call; rep: the call before it was the same call (same
\* handler, wrapper and argument) and succeeded; to: the destination a
\* decode was called with.
Call(op, p, a, it, r) ==
  [op |-> op, p |-> p, a |-> a, it |-> it, out |-> r.out, view |-> r.view,
   val |-> r.val, msg |-> r.msg, pre |-> val, to |-> 0,
   rep |-> (last.op = op /\ last.p = p /\ last.a = a /\ last.out = "ok")]

NewCall ==
  [op |-> "new", p |-> <<>>, a |-> LNone, it |-> 0, out |-> "ok",
   view |-> NoView, val |-> LNone, msg |-> "", pre |-> val, to |-> 0,
   rep |-> FALSE]

Touch(r) ==
  [i \in 1..Len(iters) |->
     [iters[i] EXCEPT !.touched = @ \/ r.v # val]]

\* A handler call on the wrapper of path p that creates no iterator.
Handler(op, p, a, r) ==
  /\ val' = r.v
  /\ last' = Call(op, p, a, 0, r)
  /\ iters' = Touch(r)
  /\ UNCHANGED <<schema, buf, dest, resolver, dest2, heap>>

Init ==
  /\ schema \in SessionSchemas
  /\ val = New(schema)
  /\ iters = <<>>
  /\ last = NewCall
  /\ buf = <<>>
  /\ dest = New(schema)
  /\ resolver = Resolver(schema, schema)
  /\ dest2 = VNone
  /\ heap = NoHeap

ValueSize == \E p \in Paths(val) : Handler("size", p, LNone, l_value_size(schema, val, p))

ValueDiscriminantIndex ==
  \E p \in Paths(val) :
    Handler("discriminant_index", p, LNone,
            l_value_discriminant_index(schema, val, p))

ValueDiscriminant ==
  \E p \in Paths(val) :
    Handler("discriminant", p, LNone, l_value_discriminant(schema, val, p))

ValueReset == \E p \in Paths(val) : Handler("reset", p, LNone, l_value_reset(schema, val, p))

ValueGet ==
  \E p \in Paths(val) : \E a \in GetArgs(Sub(val, p).k) :
    Handler("get", p, a, l_value_get(schema, val, p, a))

ValueSet ==
  \E p \in Paths(val) : \E a \in SetArgs(Sub(val, p).k) :
    LET r == l_value_set(schema, val, p, a) IN
    /\ avro_value_get_size(Sub(r.v, p)) <= MaxLen
    /\ Handler("set", p, a, r)

ValueAdd ==
  \E p \in Paths(val) : \E a \in AddArgs(Sub(val, p).k) :
    LET r == l_value_add(schema, val, p, a) IN
    /\ avro_value_get_size(Sub(r.v, p)) <= MaxLen
    /\ Handler("add", p, a, r)

ValueAppend ==
  \E p \in Paths(val) :
    LET r == l_value_append(schema, val, p) IN
    /\ avro_value_get_size(Sub(r.v, p)) <= MaxLen
    /\ Handler("append", p, LNone, r)

ValueIterate ==
  LET r == l_value_iterate(schema, val, <<>>) IN
  /\ Len(iters) < MaxIters
  /\ val' = val
  /\ last' = Call("iterate", <<>>, LNone,
                  IF r.out = "ok" THEN Len(iters) + 1 ELSE 0, r)
  /\ iters' = IF r.out = "ok"
              THEN Append(iters, create_iterator(val.k, avro_value_get_size(val)))
              ELSE iters
  /\ UNCHANGED <<schema, buf, dest, resolver, dest2, heap>>

IteratorStep ==
  \E i \in 1..Len(iters) :
    LET it == iters[i]
        r == IF it.kind = "array" THEN iterate_array(val, it)
             ELSE iterate_map(val, it)
    IN /\ val' = val
       /\ last' = Call("step", <<>>, LNone, i, r)
       /\ iters' =
            IF r.out = "ok"
            THEN [iters EXCEPT ![i] =
                    [it EXCEPT !.next_index = IterAdvance(@),
                               !.yielded = Append(@,
                                  [pos |-> it.next_index, key |-> r.val])]]
            ELSE iters
       /\ UNCHANGED <<schema, buf, dest, resolver, dest2, heap>>

\* The value handlers of a session on one root value.
Next ==
  \/ ValueSize
  \/ ValueDiscriminantIndex
  \/ ValueDiscriminant
  \/ ValueReset
  \/ ValueGet
  \/ ValueSet
  \/ ValueAdd
  \/ ValueAppend
  \/ ValueIterate

Spec == Init /\ [][Next]_vars

\* A session that grows and resets an array or a map while iterators created
\* from it are stepped.
InitIter ==
  /\ schema \in {SArray(SInt), SMap(SInt)}
  /\ val = New(schema)
  /\ iters = <<>>
  /\ last = NewCall
  /\ buf = <<>>
  /\ dest = New(schema)
  /\ resolver = Resolver(schema, schema)
  /\ dest2 = VNone
  /\ heap = NoHeap

\* The session modifies the container through its own wrapper, the one the
\* iterators were created from.
RootAppend ==
  LET r == l_value_append(schema, val, <<>>) IN
  /\ avro_value_get_size(r.v) <= MaxLen
  /\ Handler("append", <<>>, LNone, r)

RootAdd ==
  \E a \in AddArgs(val.k) :
    LET r == l_value_add(schema, val, <<>>, a) IN
    /\ avro_value_get_size(r.v) <= MaxLen
    /\ Handler("add", <<>>, a, r)

RootReset == Handler("reset", <<>>, LNone, l_value_reset(schema, val, <<>>))

NextIter ==
  \/ RootAppend
  \/ RootAdd
  \/ RootReset
  \/ ValueIterate
  \/ IteratorStep

SpecIter == InitIter /\ [][NextIter]_vars

\* A session that populates values from literals.
SMapArr == SMap(SArray(SBoolean))
SUniLI == SUnion(<<SLong, SInt>>)
AstSchemas ==
  {SInt, SString, SEnum, SArray(SInt), SMap(SInt), SMapArr, SUni3, SRecU}

\* Tables with the keys of ks, one table per order lua_next may return the
\* keys in and per choice of values from vals(key).
RECURSIVE Tables(_, _)
Tables(ks, vals) ==
  IF ks = {} THEN {<<>>}
  ELSE UNION {{<<<<k, x>>>> \o q : x \in vals[k], q \in Tables(ks \ {k}, vals)} :
                k \in ks}

\* The array case reads a table by lua_objlen and lua_rawgeti, whatever the
\* order of lua_next: one table per sequence of elements.
ArrayLiterals(elems) ==
  {LTab([i \in 1..Len(q) |-> <<LNum(i), q[i]>>]) :
     q \in UNION {[1..n -> elems] : n \in 0..MaxLen}}
MapLiterals(vals) ==
  {LTab(q) : q \in UNION {Tables(ks, [k \in ks |-> vals]) :
                            ks \in SUBSET {LStr("a"), LStr("b")}}}
UnionLiterals(names, lits) ==
  {LNil, LTab(<<>>)} \cup
  UNION {{LTab(<<<<LStr(n), x>>>>) : x \in lits[n]} : n \in names}

\* The literals a value of a schema is populated from: literals of the
\* schema's shape, and for the scalars a literal of another shape.
LitInt == {LNum(1), LNum(2), LStr("a")}
LitString == {LStr("a"), LStr("b")}
LitEnum == {LStr("B"), LNum(0), LNum(1), LNum(2), LStr("zz")}
LitBoolean == {LBool(TRUE)}
LitArrInt == ArrayLiterals(LitInt)
LitMapInt == MapLiterals(LitInt)
LitArrBoolean ==
  {LTab(<<>>), LTab(<<<<LNum(1), LBool(TRUE)>>>>),
   LTab(<<<<LNum(1), LBool(TRUE)>>, <<LNum(2), LBool(TRUE)>>>>)}
LitMapArr == MapLiterals(LitArrBoolean)
LitUniNS == UnionLiterals({"null", "string"}, [n \in {"null", "string"} |->
              IF n = "null" THEN {LNil} ELSE LitString])
LitUni3 == UnionLiterals({"null", "int", "string"},
             [n \in {"null", "int", "string"} |->
                IF n = "null" THEN {LNil}
                ELSE IF n = "int" THEN LitInt ELSE LitString])
\* Union literals with two keys, in either order lua_next may return them.
LitUniMany ==
  {LTab(q) : q \in Tables({LStr("int"), LStr("string")},
                          [k \in {LStr("int"), LStr("string")} |->
                             IF k = LStr("int") THEN {LNum(1)}
                             ELSE {LStr("a")}])}
LitLong == {LNum(-1), LNum(64)}
LitUniLI == UnionLiterals({"long", "int"},
              [n \in {"long", "int"} |->
                 IF n = "long" THEN LitLong ELSE {LNum(1)}])
LitRecU ==
  {LTab(q) : q \in UNION {Tables(ks, [k \in ks |->
                 IF k = LStr("f") THEN LitInt ELSE LitUniNS]) :
               ks \in SUBSET {LStr("f"), LStr("u")}}}

\* Record literals whose keys are positions, alone and beside a name.
LitRecUPos ==
  {LTab(<<<<LNum(1), LNum(2)>>>>),
   LTab(<<<<LNum(2), LTab(<<<<LStr("string"), LStr("b")>>>>)>>>>),
   LTab(<<<<LStr("f"), LNum(1)>>, <<LNum(1), LNum(2)>>>>),
   LTab(<<<<LNum(1), LNum(2)>>, <<LStr("f"), LNum(1)>>>>)}

Literals(s) ==
  CASE s = SInt -> LitInt
    [] s = SString -> LitString
    [] s = SEnum -> LitEnum
    [] s = SNull -> {LNil}
    [] s = SBoolean -> LitBoolean
    [] s = SArray(SInt) -> LitArrInt
    [] s = SArray(SBoolean) -> LitArrBoolean
    [] s = SMap(SInt) -> LitMapInt
    [] s = SMapArr -> LitMapArr
    [] s = SUni3 -> LitUni3 \cup LitUniMany
    [] s = SUnion(<<SNull, SString>>) -> LitUniNS
    [] s = SRecU -> LitRecU \cup LitRecUPos
    [] s = SLong -> LitLong
    [] s = SUniLI -> LitUniLI

InitAst ==
  /\ schema \in AstSchemas
  /\ val = New(schema)
  /\ iters = <<>>
  /\ last = NewCall
  /\ buf = <<>>
  /\ dest = New(schema)
  /\ resolver = Resolver(schema, schema)
  /\ dest2 = VNone
  /\ heap = NoHeap

ValueSetFromAst ==
  \E p \in Paths(val) : \E a \in Literals(SchemaAt(schema, val, p)) :
    Handler("set_from_ast", p, a, l_value_set_from_ast(schema, val, p, a))

NextAst ==
  \/ ValueSetFromAst
  \/ ValueReset

SpecAst == InitAst /\ [][NextAst]_vars

\* A session that encodes a populated value and decodes the string, or the
\* string short of its last byte, into a second value of the schema through
\* a resolver of the schema against itself.
CodecSchemas ==
  {SLong, SString, SEnum, SArray(SInt), SMap(SInt), SRecU, SUni3, SUniLI}

\* The values set_from_ast builds from a new value of the schema.
Populated(s) ==
  {New(s)} \cup
  {l_value_set_from_ast(s, New(s), <<>>, a).v : a \in Literals(s)}

InitCodec ==
  /\ schema \in CodecSchemas
  /\ val \in Populated(schema)
  /\ iters = <<>>
  /\ last = NewCall
  /\ buf = <<>>
  /\ dest = New(schema)
  /\ resolver = Resolver(schema, schema)
  /\ dest2 = VNone
  /\ heap = NoHeap

ValueEncode ==
  \E env \in EncodeEnvs :
    LET r == l_value_encode(schema, val, <<>>, env) IN
    /\ last' = Call("encode", <<>>, LNone, 0, r)
    /\ buf' = IF r.out = "ok" THEN r.val.b ELSE buf
    /\ UNCHANGED <<schema, val, iters, dest, resolver, dest2, heap>>

ValueEncodedSize ==
  /\ last' = Call("encoded_size", <<>>, LNone, 0,
                  l_value_encoded_size(schema, val, <<>>))
  /\ UNCHANGED <<schema, val, iters, buf, dest, resolver, dest2, heap>>

\* The destinations that exist, and the value of one.
Dests == {k \in {1, 2} : (IF k = 1 THEN dest ELSE dest2) # VNone}
DestOf(k) == IF k = 1 THEN dest ELSE dest2

\* Bytes that are no value of a schema: a union discriminant that names no
\* branch, a string of negative length.
Garbage(w) ==
  CASE w.type = "union" -> {<<8>>}
    [] w.type = "string" -> {<<1>>}
    [] OTHER -> {}
\* The strings decode is called with: the last encoding, the encoding
\* without its last byte, the empty string, bytes that are not a value.
DecodeInputs ==
  {LBin(buf), LBin(SubSeq(buf, 1, Len(buf) - 1)), LBin(<<>>)}
    \cup {LBin(g) : g \in Garbage(resolver.w)}

\* decode with destination k: the resolver is bound to it, the bytes are
\* read into the destination the resolver is bound to.  pre of a decode: the
\* destination before the call.
ResolvedWriterDecode ==
  /\ resolver.ok
  /\ \E k \in Dests :
     \E a \in DecodeInputs :
       LET res == avro_resolved_writer_set_dest(resolver, k)
           r == l_resolved_writer_decode(res.w, res.r, DestOf(res.dest), a)
       IN /\ resolver' = [res EXCEPT !.failed = IF r.out # "ok" THEN a ELSE @]
          /\ dest' = IF res.dest = 1 THEN r.v ELSE dest
          /\ dest2' = IF res.dest = 2 THEN r.v ELSE dest2
          /\ last' = [Call("decode", <<>>, a, 0, r)
                        EXCEPT !.pre = DestOf(k), !.to = k]
          /\ UNCHANGED <<schema, val, iters, buf, heap>>

NextCodec ==
  \/ ValueEncode
  \/ ValueEncodedSize
  \/ ResolvedWriterDecode

SpecCodec == InitCodec /\ [][NextCodec]_vars

\* A session that writes values of one schema and decodes them through a
\* resolver into values of another schema.
LSchema(s) == [t |-> "schema", s |-> s]
SUniNS == SUnion(<<SNull, SString>>)
SUniNI == SUnion(<<SNull, SInt>>)
SUniSN == SUnion(<<SString, SNull>>)
Numerics == {SInt, SLong, SFloat, SDouble}
ResolveWriters == Numerics \cup {SUniNS}
ResolveReaders(w) ==
  IF w.type = "union" THEN {SUniNS, SUniNI, SUniSN} ELSE Numerics
ResolveLiterals(s) ==
  CASE s = SInt -> {LNum(42), LNum(16777217)}
    [] s = SLong -> {LNum(42), LNum(-16777217)}
    [] s = SFloat -> {LNum(42)}
    [] s = SDouble -> {LNum(42), LNum(16777217)}
    [] OTHER -> LitUniNS

InitResolve ==
  /\ schema \in ResolveWriters
  /\ val = New(schema)
  /\ iters = <<>>
  /\ last = NewCall
  /\ buf = <<>>
  /\ dest = VNone
  /\ resolver = NoResolver
  /\ dest2 = VNone
  /\ heap = NoHeap

ResolvedWriterNew ==
  /\ ~resolver.ok
  /\ \E r \in ResolveReaders(schema) :
       LET x == l_resolved_writer_new(schema, r) IN
       /\ resolver' = x.v
       /\ last' = Call("resolver_new", <<>>, LSchema(r), 0, x)
       /\ UNCHANGED <<schema, val, iters, buf, dest, dest2, heap>>

\* A value of the reader schema is created, to decode into.
SchemaNewRawValue ==
  /\ resolver.ok
  /\ dest2 = VNone
  /\ dest' = IF dest = VNone THEN New(resolver.r) ELSE dest
  /\ dest2' = IF dest = VNone THEN dest2 ELSE New(resolver.r)
  /\ last' = Call("new_raw_value", <<>>, LNone, 0,
                  Ok(New(resolver.r), <<>>, LNone))
  /\ UNCHANGED <<schema, val, iters, buf, resolver, heap>>

WriterSetFromAst ==
  \E a \in ResolveLiterals(schema) :
    Handler("set_from_ast", <<>>, a, l_value_set_from_ast(schema, val, <<>>, a))

\* reset of a destination.
DestReset ==
  \E k \in Dests :
    LET r == l_value_reset(resolver.r, DestOf(k), <<>>) IN
    /\ dest' = IF k = 1 THEN r.v ELSE dest
    /\ dest2' = IF k = 2 THEN r.v ELSE dest2
    /\ last' = [Call("reset", <<>>, LNone, 0, r)
                  EXCEPT !.pre = DestOf(k), !.to = k]
    /\ UNCHANGED <<schema, val, iters, buf, resolver, heap>>

\* copy_from of a destination from the written value.
DestCopyFrom ==
  \E k \in Dests :
    LET r == l_value_copy_from(resolver.r, DestOf(k), schema, val) IN
    /\ dest' = IF k = 1 THEN r.v ELSE dest
    /\ dest2' = IF k = 2 THEN r.v ELSE dest2
    /\ last' = [Call("copy_from", <<>>, LNone, 0, r)
                  EXCEPT !.pre = DestOf(k), !.to = k]
    /\ UNCHANGED <<schema, val, iters, buf, resolver, heap>>

NextResolve ==
  \/ DestCopyFrom
  \/ ResolvedWriterNew
  \/ SchemaNewRawValue
  \/ WriterSetFromAst
  \/ ValueEncode
  \/ ResolvedWriterDecode
  \/ DestReset

SpecResolve == InitResolve /\ [][NextResolve]_vars

\* ------------------------------------------------------------- claims
Target == Sub(last.pre, last.p)
IsIndex(a) == lua_isnumber(a)

\* C2: get with a numeric index i on an array or map of size S returns the
\* element exactly when 1 <= i <= S; otherwise the outcome is nil plus
\* "Index out of bounds", no element is returned, the value is unchanged.
C2_GetByIndex ==
  (last.op = "get" /\ Target.k \in {"array", "map"} /\ IsIndex(last.a)) =>
    LET S == avro_value_get_size(Target)
        i == lua_tointeger(last.a)
    IN /\ val = last.pre
       /\ (1 <= i /\ i <= S) =>
            (last.out = "ok" /\ last.view = last.p \o <<i - 1>>)
       /\ ~(1 <= i /\ i <= S) =>
            (last.out = "nilmsg" /\ last.msg = "Index out of bounds"
             /\ last.view = NoView)

C2_Witness ==
  /\ last.op = "get" /\ Target.k = "map" /\ last.a.t = "number"
  /\ avro_value_get_size(Target) = 2 /\ last.a.n = 3
  /\ last.out = "nilmsg"

Kind(it) == it.kind
PairKey(it, j) == IF Kind(it) = "array" THEN LNum(j) ELSE LStr(val.m[j].key)

\* C3: an iterator over an array or map of size N that was not modified
\* since the iterator was created has yielded the first positions in storage
\* order, each once (arrays: 1-based position, maps: the key), never more
\* than N, and exactly N when a step reports the end.
C3_IterateAll ==
  \A i \in 1..Len(iters) :
    LET it == iters[i]
        N == avro_value_get_size(val)
    IN ~it.touched =>
         /\ Len(it.yielded) <= N
         /\ \A j \in 1..Len(it.yielded) :
              /\ j <= N
              /\ it.yielded[j].pos = j - 1
              /\ it.yielded[j].key = PairKey(it, j)
         /\ (last.op = "step" /\ last.it = i /\ last.out = "end") =>
              Len(it.yielded) = N

C3_Witness ==
  \E i \in 1..Len(iters) :
    /\ ~iters[i].touched /\ iters[i].kind = "map"
    /\ last.op = "step" /\ last.it = i /\ last.out = "end"
    /\ Len(iters[i].yielded) = 2 /\ avro_value_get_size(val) = 2

\* C4: every step of an iterator compares its cursor with the size the
\* value has at that step: it reports the end exactly when the cursor is
\* greater than or equal to that size, and otherwise yields the position of
\* the cursor, elements added after the iterator was created included.
C4_StepReadsSize ==
  last.op = "step" =>
    LET it == iters[last.it]
        N == avro_value_get_size(val)
    IN \/ last.out = "end" /\ it.next_index >= N
       \/ /\ last.out = "ok" /\ it.next_index - 1 < N
          /\ last.view = <<it.next_index - 1>>

C4_Witness ==
  /\ last.op = "step" /\ last.out = "ok"
  /\ Len(iters[last.it].yielded) >= 2
  /\ last.view[1] >= iters[last.it].size0

\* C5: an iterator's cursor starts at the first position, moves by exactly
\* one on each step that yields a pair and by nothing otherwise (a step of
\* another iterator included), so that no position is yielded twice.
C5_CursorStep ==
  /\ \A i \in 1..Len(iters) :
       /\ Len(iters') >= Len(iters)
       /\ iters'[i].next_index \in
            {iters[i].next_index, iters[i].next_index + 1}
       /\ (iters'[i].next_index # iters[i].next_index) <=>
            (last'.op = "step" /\ last'.it = i /\ last'.out = "ok")
  /\ Len(iters') > Len(iters) =>
       /\ Len(iters') = Len(iters) + 1
       /\ iters'[Len(iters')].next_index = 0

C5_NoRepeat ==
  \A i \in 1..Len(iters) :
    /\ iters[i].next_index = Len(iters[i].yielded)
    /\ \A j, k \in 1..Len(iters[i].yielded) :
         j < k => iters[i].yielded[j].pos < iters[i].yielded[k].pos

C5_ForwardOnly == [][C5_CursorStep]_vars /\ []C5_NoRepeat

C5_Witness ==
  /\ Len(iters) = 2
  /\ iters[1].next_index = 2 /\ iters[2].next_index = 1
  /\ last.op = "step" /\ last.it = 2 /\ last.out = "ok"

\* A successful selection of a union branch, by position or by name.
IsSelection ==
  /\ last.op \in {"get", "set"} /\ Target.k = "union"
  /\ last.a.t \in {"number", "string"} /\ last.out = "ok"

\* C6: after a successful branch selection the union has one active branch,
\* the selected one: discriminant_index reports the position passed,
\* discriminant the name of that branch, get without a selector (and the
\* selection itself) return the view of that branch, of the branch's type.
C6_ActiveBranch ==
  IsSelection =>
    LET us == SchemaAt(schema, last.pre, last.p)
        di == l_value_discriminant_index(schema, val, last.p)
        dn == l_value_discriminant(schema, val, last.p)
        g == l_value_get(schema, val, last.p, LNone)
    IN /\ di.out = "ok" /\ dn.out = "ok" /\ g.out = "ok"
       /\ di.val.n \in 1..Len(us.branches)
       /\ lua_isnumber(last.a) => di.val.n = lua_tointeger(last.a)
       /\ ~lua_isnumber(last.a) => dn.val = LStr(last.a.s)
       /\ dn.val = LStr(avro_schema_type_name(us.branches[di.val.n]))
       /\ g.view = last.p \o <<0>> /\ last.view = g.view
       /\ Sub(val, g.view).k = us.branches[di.val.n].type

C6_Witness ==
  /\ IsSelection /\ Target.d >= 0
  /\ Target.d # Sub(val, last.p).d
  /\ last.a.t = "number" /\ last.a.n = 3

\* C7: get of a map by a key that is present (a key that is no numeral)
\* returns the entry and an index, and get by that index returns the entry
\* of the same key.
C7_NameIndexRoundTrip ==
  (/\ last.op = "get" /\ Target.k = "map" /\ last.a.t = "string"
   /\ ~lua_isnumber(last.a)
   /\ MapIndex(Target, last.a.s) >= 0) =>
    /\ last.out = "ok"
    /\ LET g == l_value_get(schema, val, last.p, last.val)
       IN /\ last.val.t = "number"
          /\ g.out = "ok" /\ g.view = last.view
          /\ g.val = LStr(last.a.s)

\* The malformed accesses: the handler of last was called on a value of the
\* wrong type, or with a name the value does not know.
Malformed ==
  \/ last.op \in {"size", "iterate"} /\ Target.k \notin {"array", "map"}
  \/ last.op = "append" /\ Target.k # "array"
  \/ last.op = "add" /\ Target.k # "map"
  \/ last.op \in {"discriminant", "discriminant_index"} /\ Target.k # "union"
  \/ /\ last.op = "get" /\ Target.k = "record" /\ last.a.t = "string"
     /\ FieldIndex(SchemaAt(schema, last.pre, last.p), last.a.s) < 0
  \/ /\ last.op = "get" /\ Target.k = "map" /\ last.a.t = "string"
     /\ MapIndex(Target, last.a.s) < 0
  \/ /\ last.op \in {"get", "set"} /\ Target.k = "union" /\ last.a.t = "string"
     /\ avro_schema_union_branch_by_name(
          SchemaAt(schema, last.pre, last.p), last.a.s) < 0
  \/ /\ last.op = "set" /\ Target.k = "enum" /\ last.a.t = "string"
     /\ avro_schema_enum_get_by_name(
          SchemaAt(schema, last.pre, last.p), last.a.s) < 0

\* C8: every malformed access ends in an error outcome (a raised error or
\* nil plus a message) and leaves the value unchanged.
C8_MalformedIsError ==
  Malformed => (last.out \in {"raise", "nilmsg"} /\ val = last.pre)

\* ---- The sequence of manual calls a tree literal stands for: reset and
\* one append per element (array), one add per key (map), one get of each
\* named field (record), one branch selection (union; nil selects "null"),
\* one set at each leaf; each call on the wrapper the call before returned.
\* A union literal naming no branch stands for no selection, which fails.
RECURSIVE Manual(_, _, _, _)
RECURSIVE ManualArray(_, _, _, _, _)
RECURSIVE ManualMap(_, _, _, _, _)
RECURSIVE ManualRecord(_, _, _, _, _)

ManualArray(s, root, p, a, i) ==
  IF i > lua_objlen(a) THEN Ok(root, NoView, LNone)
  ELSE LET c == l_value_append(s, root, p)
           r == Manual(s, c.v, c.view, lua_rawget(a, LNum(i)))
       IN IF c.out # "ok" THEN c
          ELSE IF r.out # "ok" THEN r
          ELSE ManualArray(s, r.v, p, a, i + 1)

ManualMap(s, root, p, a, j) ==
  IF j > Len(a.q) THEN Ok(root, NoView, LNone)
  ELSE LET c == l_value_add(s, root, p, a.q[j][1])
           r == Manual(s, c.v, c.view, a.q[j][2])
       IN IF c.out # "ok" THEN c
          ELSE IF r.out # "ok" THEN r
          ELSE ManualMap(s, r.v, p, a, j + 1)

ManualRecord(s, root, p, a, j) ==
  IF j > Len(a.q) THEN Ok(root, NoView, LNone)
  ELSE LET c == l_value_get(s, root, p, a.q[j][1])
           r == Manual(s, c.v, c.view, a.q[j][2])
       IN IF c.out # "ok" THEN c
          ELSE IF r.out # "ok" THEN r
          ELSE ManualRecord(s, r.v, p, a, j + 1)

Manual(s, root, p, a) ==
  LET t == avro_value_get_type(Sub(root, p)) IN
  CASE t = "array" -> ManualArray(s, l_value_reset(s, root, p).v, p, a, 1)
    [] t = "map" -> ManualMap(s, root, p, a, 1)
    [] t = "record" -> ManualRecord(s, root, p, a, 1)
    [] t = "union" ->
         IF ~lua_isnil(a) /\ Len(a.q) = 0
         THEN Raise(root, "no branch named")
         ELSE LET name == IF lua_isnil(a) THEN LStr("null") ELSE a.q[1][1]
                  c == l_value_set(s, root, p, name)
              IN IF c.out # "ok" THEN c
                 ELSE Manual(s, c.v, c.view,
                             IF lua_isnil(a) THEN LNil ELSE a.q[1][2])
    [] OTHER -> l_value_set(s, root, p, a)

IsPopulate == last.op = "set_from_ast"

\* C9: populating a value from a tree literal succeeds exactly when the
\* sequence of manual calls the literal stands for succeeds on the same
\* starting value, and leaves a value equal to the one that sequence leaves.
C9_AstIsManual ==
  IsPopulate =>
    LET m == Manual(schema, last.pre, last.p, last.a) IN
    /\ (m.out = "ok") = (last.out = "ok")
    /\ l_value_eq(m.v, val)

\* A map of arrays with an entry that holds elements is populated again
\* from a literal with two keys.
C9_Witness ==
  /\ IsPopulate /\ last.out = "ok" /\ last.p = <<>>
  /\ schema = SMapArr
  /\ Len(last.a.q) = 2
  /\ \E i \in 1..Len(last.pre.m) : Len(last.pre.m[i].val.e) > 0
  /\ \E i \in 1..Len(val.m) : Len(val.m[i].val.e) > 0

\* C10: a value populated from a literal and at once populated again from
\* the same literal equals the value after the first population.
C10_RepopulateIdempotent ==
  (IsPopulate /\ last.rep /\ last.out = "ok") => l_value_eq(val, last.pre)

\* An array literal with elements, a map literal with keys, a record and a
\* union literal have each been applied twice in a row.
C10_Repopulated(k) ==
  /\ IsPopulate /\ last.rep /\ last.out = "ok"
  /\ avro_value_get_type(Sub(val, last.p)) = k
C10_Witness ==
  /\ C10_Repopulated("array")
  /\ Len(Sub(val, last.p).e) = MaxLen

\* The last call populated a union from a table literal.
IsUnionPopulate ==
  /\ IsPopulate
  /\ avro_value_get_type(Sub(last.pre, last.p)) = "union"
  /\ last.a.t = "table"

\* ------------------------------------------------ SpecOwn
\* Wrappers are created, re-armed and released.
MaxWrappers == 3
MaxReleases == 2

InitOwn ==
  /\ schema = SInt
  /\ val = New(schema)
  /\ iters = <<>>
  /\ last = NewCall
  /\ buf = <<>>
  /\ dest = VNone
  /\ resolver = NoResolver
  /\ dest2 = VNone
  /\ heap = NoHeap

HeapCallOut(op, k, h, out) ==
  /\ heap' = h
  /\ last' = [NewCall EXCEPT !.op = op, !.pre = heap, !.to = k, !.out = out]
  /\ UNCHANGED <<schema, val, iters, buf, dest, resolver, dest2>>
HeapCall(op, k, h) == HeapCallOut(op, k, h, "ok")
FaultOut(fault) == IF fault = "none" THEN "ok" ELSE "raise"

SchemaNewValue ==
  /\ Len(heap.wrappers) < MaxWrappers
  /\ \E fault \in NewValueFaults :
       HeapCallOut("new_raw_value", 0,
                   l_schema_new_raw_value(heap, 0, fault), FaultOut(fault))

SchemaNewValueInto ==
  /\ Len(heap.refcount) < MaxWrappers
  /\ \E k \in 1..Len(heap.wrappers) : \E fault \in NewValueFaults :
       /\ last' = [NewCall EXCEPT !.op = "new_raw_value", !.pre = heap,
                     !.to = k, !.out = FaultOut(fault), !.msg = fault]
       /\ heap' = l_schema_new_raw_value(heap, k, fault)
       /\ UNCHANGED <<schema, val, iters, buf, dest, resolver, dest2>>

\* A handler pushes a wrapper of a child of the value of the wrapper k.
ValuePushChild ==
  /\ Len(heap.wrappers) < MaxWrappers
  /\ \E k \in 1..Len(heap.wrappers) : \E op \in ViewOps :
       /\ heap.wrappers[k].self # NULL
       /\ HeapCall(op, k, PushChild(heap, k))

ValueRelease ==
  \E k \in 1..Len(heap.wrappers) :
    /\ heap.wrappers[k].releases < MaxReleases
    /\ HeapCall("release", k, l_value_release(heap, k))

\* A handler is called on a wrapper.
ValueUse ==
  \E k \in 1..Len(heap.wrappers) : \E op \in UseOps :
    \E undefined \in NullIfaceOutcomes :
      HeapCallOut(op, k, heap, ValueCall(heap, k, undefined))

NextOwn ==
  \/ SchemaNewValue
  \/ SchemaNewValueInto
  \/ ValuePushChild
  \/ ValueRelease

SpecOwn == InitOwn /\ [][NextOwn]_vars

\* Wrappers are created, released and used.
NextUse ==
  \/ SchemaNewValue
  \/ ValuePushChild
  \/ ValueRelease
  \/ ValueUse

SpecUse == InitOwn /\ [][NextUse]_vars

\* ------------------------------------------------ SpecSchema
\* Schema wrappers are created, used to create values, and finalized.
InitSchema ==
  /\ schema = SInt
  /\ val = New(schema)
  /\ iters = <<>>
  /\ last = NewCall
  /\ buf = <<>>
  /\ dest = VNone
  /\ resolver = NoResolver
  /\ dest2 = VNone
  /\ heap = NoSchemas

SchemaNew ==
  /\ Len(heap.l_schemas) < MaxWrappers
  /\ HeapCall("Schema", 0, l_schema_new(heap))

\* new_raw_schema with the pointer of a schema that is alive.
NewRawSchema ==
  /\ Len(heap.l_schemas) < MaxWrappers
  /\ \E s \in 1..Len(heap.refcount) :
       /\ heap.refcount[s] > 0
       /\ HeapCall("new_raw_schema", s, l_new_raw_schema(heap, s))

SchemaNewRawValueIface ==
  \E k \in 1..Len(heap.l_schemas) :
    /\ heap.l_schemas[k].schema # NULL
    /\ HeapCall("new_raw_value", k, SchemaIface(heap, k))

SchemaGc ==
  \E k \in 1..Len(heap.l_schemas) :
    /\ heap.l_schemas[k].gcs < MaxReleases
    /\ HeapCall("gc", k, l_schema_gc(heap, k))

NextSchema ==
  \/ SchemaNew
  \/ NewRawSchema
  \/ SchemaNewRawValueIface
  \/ SchemaGc

SpecSchema == InitSchema /\ [][NextSchema]_vars

\* ------------------------------------------------ SpecFile
\* Data files are opened, closed any number of times, and finalized.
InitFile ==
  /\ schema = SInt
  /\ val = New(schema)
  /\ iters = <<>>
  /\ last = NewCall
  /\ buf = <<>>
  /\ dest = VNone
  /\ resolver = NoResolver
  /\ dest2 = VNone
  /\ heap = NoFiles

FileOpen ==
  /\ Len(heap.l_files) < MaxWrappers
  /\ \E mode \in {"r", "w"} : \E fails \in BOOLEAN :
       HeapCallOut("open", 0, l_file_open(heap, mode, fails),
                   IF fails THEN "nilmsg" ELSE "ok")

FileClose ==
  \E k \in 1..Len(heap.l_files) :
    /\ ~heap.l_files[k].dead
    /\ heap.l_files[k].closes < MaxReleases
    /\ HeapCall("close", k, l_file_close(heap, k))

\* The garbage collector runs __gc on a wrapper, once.
FileGc ==
  \E k \in 1..Len(heap.l_files) :
    /\ ~heap.l_files[k].dead
    /\ HeapCall("gc", k,
                [l_file_close(heap, k) EXCEPT !.l_files[k].dead = TRUE])

NextFile ==
  \/ FileOpen
  \/ FileClose
  \/ FileGc

SpecFile == InitFile /\ [][NextFile]_vars

\* C11: populating a union from a table with zero keys or with more than one
\* key is an error and leaves the union as it was; only a table with exactly
\* one key is accepted.
C11_UnionOneKey ==
  (IsUnionPopulate /\ Len(last.a.q) # 1) =>
    (last.out # "ok" /\ val = last.pre)

\* The last call set or populated an enum; its symbol list; what a get on
\* the enum returns after the call.
IsEnumSet ==
  last.op \in {"set", "set_from_ast"} /\ Target.k = "enum"
EnumSymbols == SchemaAt(schema, last.pre, last.p).symbols
EnumGet == l_value_get(schema, val, last.p, LNone)

\* Populating from a symbol name selects that symbol, and get returns it.
C12_ByName ==
  (last.a.t = "string" /\ ~lua_isnumber(last.a) /\
   \E j \in 1..Len(EnumSymbols) : EnumSymbols[j] = last.a.s) =>
    (last.out = "ok" /\ EnumGet.out = "ok" /\ EnumGet.val = last.a)

\* C12: populating an enum from the number i selects the symbol at the
\* 0-based index i of the symbol list (0 the first symbol), populating it
\* from a symbol name selects that symbol; get returns the symbol's name.
C12_EnumZeroBased ==
  IsEnumSet =>
    /\ (last.a.t = "number" /\ 0 <= last.a.n /\ last.a.n < Len(EnumSymbols)) =>
         /\ last.out = "ok" /\ EnumGet.out = "ok"
         /\ EnumGet.val = LStr(EnumSymbols[last.a.n + 1])
    /\ C12_ByName

\* C12, amended: the number i selects the symbol at the 1-based position i
\* of the symbol list (1 the first symbol).
C12_EnumOneBased ==
  IsEnumSet =>
    /\ (last.a.t = "number" /\ 1 <= last.a.n /\ last.a.n <= Len(EnumSymbols)) =>
         /\ last.out = "ok" /\ EnumGet.out = "ok"
         /\ EnumGet.val = LStr(EnumSymbols[last.a.n])
    /\ C12_ByName

\* An enum holding its first symbol has been populated from the number 2 and
\* holds its second symbol.
C12_Witness ==
  /\ IsEnumSet /\ last.op = "set_from_ast" /\ last.out = "ok"
  /\ last.a = LNum(2) /\ Target.i = 0
  /\ EnumGet.val = LStr("B")

\* The exact size: encode succeeds with as many bytes as encoded_size
\* reports, the bytes of the value whatever buffer they were written to.
C13_Exact ==
  LET n == l_value_encoded_size(schema, last.pre, last.p) IN
  /\ last.out = "ok" /\ n.out = "ok"
  /\ Len(last.val.b) = n.val.n
  /\ last.val.b = avro_value_write(Target)

\* C13: for every value, encode succeeds with a byte string as long as
\* encoded_size says, on the static buffer path and on the heap buffer path,
\* and the bytes do not depend on the path.
C13_EncodedSizeExact == last.op = "encode" => C13_Exact

\* C13, amended: for every value all of whose unions have a branch selected,
\* unless the heap buffer cannot be allocated.
C13_EncodedSizeExactSelected ==
  (last.op = "encode" /\ Selected(Target) /\ last.msg # "Out of memory")
    => C13_Exact

\* A value too long for the static buffer has been encoded.
C13_Witness ==
  /\ last.op = "encode" /\ last.out = "ok"
  /\ EncodeBuffer(Len(last.val.b)) = "heap"

\* The numeric pairs a resolver can be created for.
Numeric(s) == s.type \in {"int", "long", "float", "double"}
Widens ==
  {<<"int", "int">>, <<"int", "long">>, <<"int", "float">>,
   <<"int", "double">>, <<"long", "long">>, <<"long", "float">>,
   <<"long", "double">>, <<"float", "float">>, <<"float", "double">>,
   <<"double", "double">>}

\* A resolver of two numeric schemas is created exactly for the widening
\* pairs; for the other pairs the call returns nil and a message, and no
\* resolver.
C14_Creation ==
  (last.op = "resolver_new" /\ Numeric(schema) /\ Numeric(last.a.s)) =>
    /\ (last.out = "ok") <=> (<<schema.type, last.a.s.type>> \in Widens)
    /\ last.out = "ok" => resolver = Resolver(schema, last.a.s)
    /\ last.out # "ok" => (last.out = "nilmsg" /\ ~resolver.ok)

\* The bytes of the written number have been decoded.
C14_Decode ==
  /\ last.op = "decode" /\ Numeric(schema)
  /\ l_value_encode(schema, val, <<>>, NoFault).out = "ok"
  /\ last.a = l_value_encode(schema, val, <<>>, NoFault).val

\* The destination holds a number of the reader type equal to the written.
C14_Equal ==
  /\ last.out = "ok"
  /\ DestOf(last.to).k = resolver.r.type
  /\ DestOf(last.to).n = val.n

\* C14: a resolver from a numeric writer schema to a numeric reader schema
\* is created exactly for the widening pairs, and decoding through it gives
\* a reader value numerically equal to the written one.
C14_NumericPromotion == C14_Creation /\ (C14_Decode => C14_Equal)

\* C14, amended: equal when the written number is one the reader type holds;
\* a float holds every whole number of magnitude up to 2^24.
C14_NumericPromotionExact ==
  /\ C14_Creation
  /\ (C14_Decode /\ (resolver.r = SFloat => Abs(val.n) <= 2 ^ 24))
       => C14_Equal

\* The int 42 has been decoded through a resolver of int against double.
C14_Witness ==
  /\ C14_Decode /\ last.out = "ok"
  /\ schema = SInt /\ resolver.r = SDouble
  /\ val = VInt(42) /\ DestOf(last.to) = VDouble(42)

\* The bytes of a written union value have been decoded; the schema of its
\* active branch.
C15_Decode ==
  /\ last.op = "decode" /\ schema.type = "union" /\ val.d >= 0
  /\ last.a = l_value_encode(schema, val, <<>>, NoFault).val
ActiveSchema == schema.branches[val.d + 1]
Accepted ==
  \E i \in 1..Len(resolver.r.branches) :
    Resolves(ActiveSchema, resolver.r.branches[i])

\* C15: a resolver for a writer union is created whether or not every
\* branch has a reader branch that accepts it; a decode of a value whose
\* active branch no reader branch accepts returns nil and a message, and
\* every decode of a value whose active branch is accepted, also after such
\* a failure, succeeds into the first reader branch that accepts it.
C15_UnionAtDecode ==
  /\ (last.op = "resolver_new" /\ schema.type = "union") =>
       (last.out = "ok" /\ resolver.ok)
  /\ (C15_Decode /\ ~Accepted) => (last.out = "nilmsg" /\ resolver.ok)
  /\ (C15_Decode /\ Accepted) =>
       LET d == DestOf(last.to) IN
       /\ last.out = "ok" /\ d.d >= 0
       /\ Resolves(ActiveSchema, resolver.r.branches[d.d + 1])
       /\ \A j \in 1..d.d : ~Resolves(ActiveSchema, resolver.r.branches[j])
       /\ avro_value_equal(d.b, val.b)

\* Through a resolver of [null, string] against [null, int], the decode of
\* the string "a" has failed and a null written later has been decoded.
C15_Witness ==
  /\ C15_Decode /\ last.out = "ok"
  /\ resolver.failed = LBin(<<2, 2, 97>>)
  /\ schema = SUniNS /\ resolver.r = SUniNI
  /\ val.d = 0 /\ DestOf(last.to).d = 0

\* A value is a value of a schema.
RECURSIVE Conforms(_, _)
Conforms(s, v) ==
  /\ v.k = s.type
  /\ CASE s.type = "array" ->
            \A i \in 1..Len(v.e) : Conforms(s.items, v.e[i])
       [] s.type = "map" ->
            \A i \in 1..Len(v.m) : Conforms(s.values, v.m[i].val)
       [] s.type = "record" ->
            /\ Len(v.f) = Len(s.fields)
            /\ \A i \in 1..Len(v.f) : Conforms(s.fields[i].schema, v.f[i])
       [] s.type = "union" ->
            /\ v.d < Len(s.branches)
            /\ v.d >= 0 => Conforms(s.branches[v.d + 1], v.b)
       [] OTHER -> TRUE

\* The proper prefixes of the encoding of the written value, the empty one
\* included, and bytes that are no value of the writer schema.
BadInput(b) ==
  \/ /\ Selected(val)
     /\ \E n \in 0..(Len(avro_value_write(val)) - 1) :
          b = SubSeq(avro_value_write(val), 1, n)
  \/ b \in Garbage(schema)

C17_CopyFrom ==
  last.op = "copy_from" =>
    IF resolver.r = schema
    THEN last.out = "ok" /\ last.val = LBool(TRUE) /\ DestOf(last.to) = val
    ELSE last.out = "nilmsg" \/ (last.out = "ok" /\ last.val = LBool(FALSE))

\* C18: set of an int value to a whole number outside [-2^31, 2^31 - 1]
\* fails and leaves the value as it was; set to a number inside the range
\* succeeds and get then returns that number.
C18_IntRange ==
  (last.op = "set" /\ Sub(last.pre, last.p).k = "int"
     /\ last.a.t = "number") =>
    IF luaL_checkinteger(last.a).q # 0
    THEN last.out \in {"nilmsg", "raise"} /\ val = last.pre
    ELSE /\ last.out = "ok"
         /\ l_value_get(schema, val, last.p, LNone).val = LNum(last.a.n)

\* C19: release on a view leaves every reference count as it was, and the
\* storage allocated for an owning wrapper has been decremented exactly
\* once when release was called on the wrapper once or more, and not at
\* all before.
C19_ReleaseOwnership ==
  /\ (last.op = "release" /\ last.pre.wrappers[last.to].view) =>
       heap.refcount = last.pre.refcount
  /\ \A k \in 1..Len(heap.wrappers) :
       LET w == heap.wrappers[k] IN
       w.own # NULL =>
         heap.refcount[w.own] = (IF w.releases = 0 THEN 1 ELSE 0)

\* release has been called a second time on an owning wrapper, and once on
\* a view of its value.
C19_Witness ==
  /\ last.op = "release"
  /\ \E k, j \in 1..Len(heap.wrappers) :
       /\ ~heap.wrappers[k].view /\ heap.wrappers[k].releases = 2
       /\ heap.wrappers[j].view /\ heap.wrappers[j].releases = 1
       /\ heap.refcount[heap.wrappers[k].own] = 0

\* C20: every decode call binds the resolver to the destination of that
\* call and writes into that destination only: the destination of an
\* earlier call stays as it was.
C20_RebindPerCall ==
  [][last'.op = "decode" =>
       /\ resolver'.dest = last'.to
       /\ last'.to = 1 => dest2' = dest2
       /\ last'.to = 2 => dest' = dest
       /\ (IF last'.to = 1 THEN dest' ELSE dest2') =
            l_resolved_writer_decode(resolver.w, resolver.r,
                                     DestOf(last'.to), last'.a).v]_vars

\* A decode into the second destination has succeeded after a decode into
\* the first one, which still holds what was decoded into it.
C20_Witness ==
  /\ last.op = "decode" /\ last.to = 2 /\ last.out = "ok"
  /\ resolver.r # schema
  /\ dest # New(resolver.r) /\ dest2 # New(resolver.r) /\ dest2 # dest

\* The call populated a record from a table.
IsRecordPopulate ==
  IsPopulate /\ Sub(last.pre, last.p).k = "record" /\ last.a.t = "table"
\* The keys of the literal that are the name of the field i (1-based).
NameKeys(i) ==
  {j \in 1..Len(last.a.q) :
     last.a.q[j][1] =
       LStr(SchemaAt(schema, last.pre, last.p).fields[i].name)}
\* The keys of the literal that get() resolves to the field i: its name,
\* or its 1-based position.
FieldKeys(i) ==
  {j \in 1..Len(last.a.q) :
     LET g == l_value_get(schema, last.pre, last.p, last.a.q[j][1])
     IN g.out = "ok" /\ g.view = last.p \o <<i - 1>>}
\* The field i alone, populated from the literal of the key j.
FieldFrom(i, j) ==
  l_value_set_from_ast(SchemaAt(schema, last.pre, last.p).fields[i].schema,
                       Sub(last.pre, last.p).f[i], <<>>, last.a.q[j][2]).v
C21_Frame(keys(_)) ==
  IsRecordPopulate =>
    \A i \in 1..Len(Sub(last.pre, last.p).f) :
      /\ keys(i) = {} => Sub(val, last.p).f[i] = Sub(last.pre, last.p).f[i]
      /\ (last.out = "ok" /\ Cardinality(keys(i)) = 1) =>
           \A j \in keys(i) : Sub(val, last.p).f[i] = FieldFrom(i, j)

\* C21: populating a record from a literal leaves every field whose name
\* is no key of the literal as it was, and populates every field whose name
\* is a key from the literal of that key.
C21_OnlyNamedFields == C21_Frame(NameKeys)

\* C21, amended: a key addresses a field by its name or by its 1-based
\* position; the fields no key addresses stay as they were, and a field
\* that one key addresses is populated from the literal of that key.
C21_OnlyAddressedFields == C21_Frame(FieldKeys)

\* A record whose union field held a string was populated through a
\* position key for its first field; the union field still holds the string.
C21_Witness ==
  /\ IsRecordPopulate /\ last.out = "ok"
  /\ last.a = LTab(<<<<LNum(1), LNum(2)>>>>)
  /\ last.pre.f[2].d = 1 /\ last.pre.f[1] # val.f[1]
  /\ val.f[2] = last.pre.f[2]

\* The keys of a map value, and the keys of a table as strings.
MapKeys(v) == {v.m[i].key : i \in 1..Len(v.m)}
TableKeys(a) == {lua_tostring(a.q[j][1]) : j \in 1..Len(a.q)}
EntryOf(v, key) == CHOOSE e \in {v.m[i] : i \in 1..Len(v.m)} : e.key = key

\* C22: a successful populate of a map from a literal leaves the keys the
\* map had and the keys of the literal, and the entries whose keys are not
\* in the literal as they were; a successful populate of an array from a
\* literal of n elements leaves exactly n elements.
C22_MapMergesArrayReplaces ==
  (IsPopulate /\ last.out = "ok" /\ last.a.t = "table") =>
    LET old == Sub(last.pre, last.p)
        new == Sub(val, last.p)
    IN /\ old.k = "map" =>
            /\ MapKeys(new) = MapKeys(old) \cup TableKeys(last.a)
            /\ \A key \in MapKeys(old) \ TableKeys(last.a) :
                 EntryOf(new, key) = EntryOf(old, key)
       /\ old.k = "array" => Len(new.e) = lua_objlen(last.a)

\* A map of arrays that held a populated entry "a" was populated from a
\* literal with the key "b" alone, whose array has elements.
C22_Witness ==
  /\ IsPopulate /\ last.out = "ok" /\ last.a.t = "table"
  /\ schema = SMapArr /\ last.p = <<>>
  /\ MapKeys(last.pre) = {"a"} /\ TableKeys(last.a) = {"b"}
  /\ EntryOf(last.pre, "a").val # New(SArray(SBoolean))
  /\ EntryOf(val, "b").val # New(SArray(SBoolean))

\* The wrappers that hold the schema s, and those that hold the interface i.
HoldersOf(s) ==
  {k \in 1..Len(heap.l_schemas) : heap.l_schemas[k].schema = s}
IfaceHoldersOf(i) ==
  {k \in 1..Len(heap.l_schemas) : heap.l_schemas[k].iface = i}

\* C23: the references of a schema are those of the wrappers that were
\* created for it and not yet finalized, one each (after Schema(text) the
\* new wrapper is the only holder); the same for the cached value
\* interfaces; a finalized wrapper holds nothing, and a finalizer run on it
\* again changes no count.
C23_SchemaRefsBalanced ==
  /\ \A s \in 1..Len(heap.refcount) :
       heap.refcount[s] = Cardinality(HoldersOf(s))
  /\ \A i \in 1..Len(heap.iface_refcount) :
       heap.iface_refcount[i] = Cardinality(IfaceHoldersOf(i))
  /\ \A k \in 1..Len(heap.l_schemas) :
       heap.l_schemas[k].gcs > 0 =>
         heap.l_schemas[k].schema = NULL /\ heap.l_schemas[k].iface = NULL
  /\ last.op = "Schema" =>
       heap.refcount[Len(heap.refcount)] = 1
  /\ (last.op = "gc" /\ last.pre.l_schemas[last.to].gcs > 0) =>
       heap.refcount = last.pre.refcount
         /\ heap.iface_refcount = last.pre.iface_refcount

\* The finalizer ran a second time on a wrapper that had cached a value
\* interface, while another wrapper still holds the same schema.
C23_Witness ==
  /\ last.op = "gc" /\ heap.l_schemas[last.to].gcs = 2
  /\ heap.iface_refcount # <<>> /\ heap.iface_refcount[1] = 0
  /\ \E s \in 1..Len(heap.refcount) : heap.refcount[s] = 1
  /\ \E s \in 1..Len(heap.refcount) : heap.refcount[s] = 0

IsReuse ==
  /\ last.op = "new_raw_value" /\ last.to > 0 /\ last.msg # "iface"
  /\ last.pre.wrappers[last.to].should_decref
  /\ last.pre.wrappers[last.to].self # NULL

C26_ReleasedIsError ==
  /\ last.op = "release" =>
       /\ heap.wrappers[last.to].self = NULL
       /\ ~heap.wrappers[last.to].should_decref
  /\ (last.op \in UseOps /\ last.pre = heap
        /\ heap.wrappers[last.to].self = NULL
        /\ heap.wrappers[last.to].releases > 0) =>
       last.out \in {"raise", "nilmsg"}

\* What the library holds for a file wrapper: the number of closes of
\* the handle it was opened with, and the references of its interface.
FileResources(h, k) ==
  LET w == h.l_files[k] IN
  [closed |-> h.closed[w.opened],
   iface |-> IF w.made = NULL THEN 0 ELSE h.iface_refcount[w.made]]

\* C27: at every point of a sequence of close calls and the finalizer on a
\* file wrapper, the reader or writer has been closed once if close or the
\* finalizer ran at all and not before, and the value interface of an
\* input file released once by then; a close or finalizer run after the
\* first changes neither.
C27_CloseOnce ==
  /\ \A k \in 1..Len(heap.l_files) :
       LET w == heap.l_files[k]
           r == FileResources(heap, k)
       IN /\ r.closed = (IF w.closes = 0 THEN 0 ELSE 1)
          /\ w.mode = "r" => r.iface = (IF w.closes = 0 THEN 1 ELSE 0)
          /\ w.dead => w.closes > 0
  /\ (last.op \in {"close", "gc"}
        /\ last.pre.l_files[last.to].closes > 0) =>
       /\ heap.closed = last.pre.closed
       /\ heap.iface_refcount = last.pre.iface_refcount

\* The finalizer ran on an input file after two explicit closes, and an
\* output file was closed twice.
C27_Witness ==
  /\ last.op = "gc" /\ heap.l_files[last.to].mode = "r"
  /\ heap.l_files[last.to].closes = 3
  /\ \E k \in 1..Len(heap.l_files) :
       heap.l_files[k].mode = "w" /\ heap.l_files[k].closes = 2

RECURSIVE UnionsOrdered(_)
UnionsOrdered(s) ==
  CASE s.type = "union" ->
         /\ \A i \in 1..Len(s.branches) : UnionsOrdered(s.branches[i])
         /\ \A i \in 1..Len(s.branches) : \A j \in 1..(i - 1) :
              ~Resolves(s.branches[i], s.branches[j])
    [] s.type = "array" -> UnionsOrdered(s.items)
    [] s.type = "map" -> UnionsOrdered(s.values)
    [] s.type = "record" ->
         \A i \in 1..Len(s.fields) : UnionsOrdered(s.fields[i].schema)
    [] OTHER -> TRUE

====
